---- MODULE Spec2Model ----
(***************************************************************************)
(* sensei-eval: the evaluation runner (src/runner.ts), the baseline        *)
(* comparator (compareResults of the baseline module), createCriterion,    *)
(* the judge's retry loop and the command line's compare command.          *)
(*                                                                         *)
(* Numbers.  Scores are fixed-point hundredths (75 is 0.75), weights are   *)
(* plain integers, thresholds of the comparator are hundredths too.  The   *)
(* weighted mean of the runner is kept as an exact fraction [num, den].    *)
(***************************************************************************)
EXTENDS Integers, Sequences, FiniteSets, TLC

\* ------------------------------------------------------------------ bounds
\* Criterion weights are drawn from 1..MaxWeight.
MaxWeight == 2

\* The catalog of one Runner: one criterion per name, in registration order.
\* Names are unique within a catalog (types.ts: a criterion is looked up by name).
CriterionNames == <<"format", "depth">>

NumCriteria == Len(CriterionNames)

Idx == 1..NumCriteria

\* Content types of the inputs, and the content-type sets a criterion declares.
ContentTypes == {"lesson", "review", "Lesson"}

Wildcard == [all |-> TRUE, types |-> {}]

ContentTypeSpecs == {Wildcard, [all |-> FALSE, types |-> {"lesson"}]}

\* Normalised scores a criterion can produce (hundredths).
ScoreValues == {0, 50, 100}

\* The fixed strength / low-score line of buildFeedback (0.75).
StrengthLine == 75

\* Weight of a score whose criterion name is not in the weight map.
DefaultWeight == 1

\* ------------------------------------------------------------------ state
VARIABLES
    criteria,     \* EvalRunner.criteria: the catalog, a sequence of criteria
    judge,        \* EvalRunner.judge: TRUE when a Judge was supplied
    pc,           \* position of the one evaluate/quickCheck call
    mode,         \* "evaluate" | "quickCheck" | "none"
    contentType,  \* input.contentType of the call
    task,         \* per catalog index: the promise of that criterion's evaluate
    result,       \* <<>> or <<r>>: the EvalResult the call returned
    error,        \* <<>> or the error the call failed with
    judgeCalls,   \* number of Judge.score calls made so far
    invoked,      \* per criterion name: how often its evaluate was invoked in the call
    settled,      \* the names of the criteria whose promise settled, in that order
    cmpCurrent,   \* compareResults' argument current: <<[name, result], ...>>
    cmpBaseline,  \* compareResults' argument baseline: a BaselineFile
    cmpThreshold, \* compareResults' argument threshold
    comparison,   \* <<>> or <<r>>: the CompareResult compareResults returned
    selected,     \* what a getCriteria(contentType) call returned
    crAssertions, \* createCriterion: what each assertion returns on the content
    crMode,       \* createCriterion: config.mode, "unset" when left out
    crThreshold,  \* createCriterion: config.threshold, or NoNumber when left out
    crScore,      \* <<>> or <<s>>: the EvalScore the built criterion resolved with
    fbApplicable, \* buildResult's argument applicable
    fbScores,     \* buildResult's argument scores
    fbResult,     \* <<>> or <<r>>: the EvalResult buildResult returned for them
    maxRetries,   \* withRetry's argument maxRetries (createJudge's retries)
    attempt,      \* withRetry's loop counter
    lastError,    \* withRetry's lastError
    delay,        \* the delay of the sleep under way (ms)
    createCalls,  \* the outcomes of the client.messages.create calls so far
    scorePc       \* position of the one judge.score call

VARIABLES
    args,            \* runCompare: the parsed command line (CliArgs)
    summaryPath,     \* process.env.GITHUB_STEP_SUMMARY: "unset" or the state of the file it names
    baselineOnDisk,  \* the file at args.baseline: missing, not JSON, or a BaselineFile
    configPrompts,   \* config.prompts: the prompt names, in configuration order
    comparePc,       \* position of the one runCompare call
    cliComparison,   \* <<>> or <<c>>: runCompare's local comparison
    exitCalls,       \* the process.exit calls so far, each with its caller
    stdout,          \* what console.log printed: the format of each print
    filesWritten,    \* the files written by writeFileSync

    batchPrompts,    \* evaluatePrompts: the argument prompts (names)
    batchQuick,      \* evaluatePrompts: the argument quick
    concurrency,     \* evaluatePrompts: the argument concurrency, or NoNumber when left out
    batchPc,         \* position of the one evaluatePrompts call
    batchStart,      \* evaluatePrompts: the loop variable i
    evaluations,     \* per prompt position: the state of its runner call
    resultsMap,      \* evaluatePrompts: the local Map results, in insertion order
    returnedMap,     \* <<>> or <<m>>: the Map the call resolved with
    completed,       \* evaluatePrompts: the counter completed
    completionOrder, \* the prompt positions in the order their evaluations settled

    concurrentCalls  \* the evaluate / quickCheck calls under way on one Runner

runnerVars ==
    <<criteria, judge, pc, mode, contentType, task, result, error, judgeCalls,
      invoked, settled>>

compareVars == <<cmpCurrent, cmpBaseline, cmpThreshold, comparison>>

factoryVars == <<crAssertions, crMode, crThreshold, crScore>>

feedbackVars == <<fbApplicable, fbScores, fbResult>>

retryVars == <<maxRetries, attempt, lastError, delay, createCalls, scorePc>>

cliVars ==
    <<args, summaryPath, baselineOnDisk, configPrompts, comparePc, cliComparison,
      exitCalls, stdout, filesWritten>>

batchVars ==
    <<batchPrompts, batchQuick, concurrency, batchPc, batchStart, evaluations,
      resultsMap, returnedMap, completed, completionOrder>>

\* The state of the command line tool and of several calls on one Runner.
commandVars == <<cliVars, batchVars, concurrentCalls>>

vars == <<runnerVars, compareVars, selected, factoryVars, feedbackVars, retryVars, commandVars>>

\* What a step of an evaluate / quickCheck call leaves alone.
outsideCall == <<selected, compareVars, factoryVars, feedbackVars, retryVars, commandVars>>

\* What compareResults leaves alone.
outsideCompare == <<runnerVars, selected, factoryVars, feedbackVars, retryVars, commandVars>>

\* A number that was left out (undefined).
NoNumber == [given |-> FALSE, value |-> 0]

Given(v) == [given |-> TRUE, value |-> v]

\* No criterion built by createCriterion is being evaluated.
FactoryIdle ==
    /\ crAssertions = <<>>
    /\ crMode = "unset"
    /\ crThreshold = NoNumber
    /\ crScore = <<>>

\* buildResult is not under study on its own.
FeedbackIdle ==
    /\ fbApplicable = <<>>
    /\ fbScores = <<>>
    /\ fbResult = <<>>

\* let lastError: unknown, before any attempt failed.
NoFailure == [kind |-> "none", status |-> 0]

\* No judge.score call is under way.
RetryIdle ==
    /\ maxRetries = 0
    /\ attempt = 0
    /\ lastError = NoFailure
    /\ delay = 0
    /\ createCalls = <<>>
    /\ scorePc = "idle"

\* No runCompare call is under way.
CliIdle ==
    /\ args = [quick |-> FALSE, apiKey |-> FALSE, format |-> "text",
               resultFile |-> "unset", threshold |-> 0]
    /\ summaryPath = "unset"
    /\ baselineOnDisk = [kind |-> "missing", content |-> <<>>]
    /\ configPrompts = <<>>
    /\ comparePc = "idle"
    /\ cliComparison = <<>>
    /\ exitCalls = <<>>
    /\ stdout = <<>>
    /\ filesWritten = {}

\* No evaluatePrompts call is under way.
BatchIdle ==
    /\ batchPrompts = <<>>
    /\ batchQuick = FALSE
    /\ concurrency = NoNumber
    /\ batchPc = "idle"
    /\ batchStart = 0
    /\ evaluations = <<>>
    /\ resultsMap = <<>>
    /\ returnedMap = <<>>
    /\ completed = 0
    /\ completionOrder = <<>>

\* Neither the command line tool nor a second Runner call is under way.
CommandIdle == CliIdle /\ BatchIdle /\ concurrentCalls = <<>>

\* ------------------------------------------------------------- data shapes
Criterion(n, ct, m, w, o) ==
    [name |-> n, contentTypes |-> ct, method |-> m, weight |-> w, optional |-> o]

Catalogs ==
    { [i \in Idx |-> Criterion(CriterionNames[i], f[i][1], f[i][2], f[i][3], f[i][4])] :
        f \in [Idx -> ContentTypeSpecs \X {"deterministic", "llm_judge"}
                      \X (1..MaxWeight) \X BOOLEAN] }

\* EvalScore.suggestions is optional: undefined, or a list of strings.
Undefined == [defined |-> FALSE, items |-> <<>>]

Some(items) == [defined |-> TRUE, items |-> items]

\* The EvalScore a criterion's evaluate resolves with.
Score(c, s, p, sg) ==
    [criterion |-> c.name, score |-> s, passed |-> p,
     reasoning |-> <<"why", c.name>>, suggestions |-> sg]

SuggestionChoices(c) == {Undefined, Some(<< <<"fix", c.name>> >>)}

Outcomes(c) ==
    { Score(c, s, p, sg) : s \in ScoreValues, p \in BOOLEAN, sg \in SuggestionChoices(c) }

NoScore == [criterion |-> "", score |-> 0, passed |-> FALSE,
            reasoning |-> <<>>, suggestions |-> Undefined]

IdleTask == [status |-> "idle", withJudge |-> FALSE, out |-> NoScore]

NoError == <<>>

CriterionError(c) == <<"criterion failed", c.name>>

JudgeRequired(c) == <<"LLM judge required for criterion", c.name, "but none provided">>

\* -------------------------------------------------------- sequence helpers
MapSeq(seq, F(_)) == [i \in 1..Len(seq) |-> F(seq[i])]

Range(seq) == {seq[i] : i \in 1..Len(seq)}

RECURSIVE Flatten(_)
Flatten(seqs) == IF seqs = <<>> THEN <<>> ELSE Head(seqs) \o Flatten(Tail(seqs))

RECURSIVE SumSeq(_)
SumSeq(seq) == IF seq = <<>> THEN 0 ELSE Head(seq) + SumSeq(Tail(seq))

Names == Range(CriterionNames)

\* ------------------------------------------------------------- EvalRunner
\* Mutant of Applies: the content type is matched without regard to case.
Applies_IgnoringCase(c, ct) ==
    c.contentTypes.all \/ (IF ct = "Lesson" THEN "lesson" ELSE ct) \in c.contentTypes.types

\* c.contentTypes === '*' || c.contentTypes.includes(contentType)
Applies(c, ct) == c.contentTypes.all \/ ct \in c.contentTypes.types

\* getCriteria(contentType): the catalog filtered, registration order kept.
getCriteria(ct) == SelectSeq(criteria, LAMBDA c : Applies(c, ct))

Deterministic(applicable) == SelectSeq(applicable, LAMBDA c : c.method = "deterministic")

Llm(applicable) == SelectSeq(applicable, LAMBDA c : c.method = "llm_judge")

\* Mutant of QuickApplicable: quickCheck without the method filter.
QuickApplicable_All(ct) == getCriteria(ct)

\* The criteria quickCheck runs: getCriteria(...).filter(deterministic).
QuickApplicable(ct) == Deterministic(getCriteria(ct))

\* weightMap.get(name) ?? 1, weightMap = new Map(applicable.map(c => [c.name, c.weight])):
\* a later entry of the same name replaces an earlier one.
WeightOf(applicable, name) ==
    LET hits == {i \in 1..Len(applicable) : applicable[i].name = name}
    IN  IF hits = {} THEN DefaultWeight
        ELSE applicable[CHOOSE i \in hits : \A j \in hits : j <= i].weight

\* s.suggestions ?? []
SuggestionsOrEmpty(s) == IF s.suggestions.defined THEN s.suggestions.items ELSE <<>>

RECURSIVE InsertByWeight_Unstable(_, _, _)
\* Mutant of InsertByWeight: s goes before the elements of its own weight.
InsertByWeight_Unstable(sorted, s, applicable) ==
    IF sorted = <<>> THEN <<s>>
    ELSE IF WeightOf(applicable, Head(sorted).criterion) > WeightOf(applicable, s.criterion)
         THEN <<Head(sorted)>> \o InsertByWeight_Unstable(Tail(sorted), s, applicable)
         ELSE <<s>> \o sorted

RECURSIVE InsertByWeight(_, _, _)
\* Insert s into sorted (descending weight) after every element of weight >= its own.
InsertByWeight(sorted, s, applicable) ==
    IF sorted = <<>> THEN <<s>>
    ELSE IF WeightOf(applicable, Head(sorted).criterion) >= WeightOf(applicable, s.criterion)
         THEN <<Head(sorted)>> \o InsertByWeight(Tail(sorted), s, applicable)
         ELSE <<s>> \o sorted

RECURSIVE SortByWeightDesc(_, _)
\* Array.prototype.sort with (a, b) => weight(b) - weight(a): stable, descending.
SortByWeightDesc(scores, applicable) ==
    IF scores = <<>> THEN <<>>
    ELSE InsertByWeight(SortByWeightDesc(SubSeq(scores, 1, Len(scores) - 1), applicable),
                        scores[Len(scores)], applicable)

\* Mutant of IsStrength: a strength is a score that passed.
IsStrength_Passed(s) == s.passed

\* .filter((s) => s.score >= 0.75)
IsStrength(s) == s.score >= StrengthLine

\* Mutant of buildFeedback: a failed score of an optional criterion is no
\* failed criterion.
buildFeedback_BlockingOnly(scores, applicable) ==
    LET optionalNames == {c.name : c \in {x \in Range(applicable) : x.optional}}
        failed == SelectSeq(scores, LAMBDA s : ~s.passed /\ s.criterion \notin optionalNames)
        strong == SelectSeq(scores, IsStrength)
        lowScoring == SortByWeightDesc(
            SelectSeq(scores, LAMBDA s : ~s.passed \/ s.score < StrengthLine), applicable)
    IN  [failedCriteria |-> MapSeq(failed, LAMBDA s :
                              [criterion |-> s.criterion, reasoning |-> s.reasoning,
                               suggestions |-> SuggestionsOrEmpty(s)]),
         strengths |-> MapSeq(strong, LAMBDA s : s.reasoning),
         suggestions |-> Flatten(MapSeq(lowScoring, SuggestionsOrEmpty))]

buildFeedback(scores, applicable) ==
    LET failed == SelectSeq(scores, LAMBDA s : ~s.passed)
        strong == SelectSeq(scores, IsStrength)
        lowScoring == SortByWeightDesc(
            SelectSeq(scores, LAMBDA s : ~s.passed \/ s.score < StrengthLine), applicable)
    IN  [failedCriteria |-> MapSeq(failed, LAMBDA s :
                              [criterion |-> s.criterion, reasoning |-> s.reasoning,
                               suggestions |-> SuggestionsOrEmpty(s)]),
         strengths |-> MapSeq(strong, LAMBDA s : s.reasoning),
         suggestions |-> Flatten(MapSeq(lowScoring, SuggestionsOrEmpty))]

\* Mutant of Blocks: every failed score blocks, optional or not.
Blocks_IgnoringOptional(s, optionalNames) == ~s.passed

\* Whether a score blocks EvalResult.passed: it is not optional and it failed.
Blocks(s, optionalNames) == s.criterion \notin optionalNames /\ ~s.passed

\* Mutant of ScoreWeight: the plain mean, every score under weight 1.
ScoreWeight_Unweighted(s, applicable) == DefaultWeight

\* The weight a score enters the weighted mean with.
ScoreWeight(s, applicable) == WeightOf(applicable, s.criterion)

buildResult(scores, applicable, ct) ==
    LET totalWeight == SumSeq(MapSeq(scores, LAMBDA s : ScoreWeight(s, applicable)))
        weightedSum == SumSeq(MapSeq(scores, LAMBDA s : s.score * ScoreWeight(s, applicable)))
        optionalNames == {c.name : c \in {x \in Range(applicable) : x.optional}}
    IN  [overallScore |-> IF totalWeight > 0
                          THEN [num |-> weightedSum, den |-> totalWeight]
                          ELSE [num |-> 0, den |-> 1],
         passed |-> \A i \in 1..Len(scores) : ~Blocks(scores[i], optionalNames),
         scores |-> scores,
         feedback |-> buildFeedback(scores, applicable),
         contentType |-> ct,
         evaluatedAt |-> "now"]

\* ------------------------------------------------------------- baseline
\* Prompt names of the comparator's inputs, in configuration order.
PromptNames == <<"intro", "advanced">>

\* Scores of the comparator's inputs (hundredths): one step of 0.10 apart.
CompareValues == {70, 80}

\* Thresholds are 0, 0.05, ..., MaxThreshold * 0.05.
MaxThreshold == 2

Thresholds == {5 * t : t \in 0..MaxThreshold}

\* A criterion score as the comparator reads it: {criterion, score}.
CriterionScore(c, v) == [criterion |-> c, score |-> v]

\* The score lists over the criterion names: each name absent or scored once,
\* in catalog order.
RECURSIVE ScoreLists(_)
ScoreLists(names) ==
    IF names = <<>> THEN {<<>>}
    ELSE LET rest == ScoreLists(Tail(names))
         IN  rest \cup { <<CriterionScore(Head(names), v)>> \o r :
                           v \in CompareValues, r \in rest }

\* The EvalResult fields compareResults reads.
CompareResults_Inputs ==
    { [overallScore |-> o, scores |-> sl, contentType |-> "lesson", evaluatedAt |-> "now"] :
        o \in CompareValues, sl \in ScoreLists(CriterionNames) }

\* BaselineEntry; scores is the record criterion -> score, kept as its entries
\* in key order.
BaselineEntries(name) ==
    { [name |-> name, contentType |-> "lesson", overallScore |-> o, scores |-> sl,
       evaluatedAt |-> "then"] :
        o \in CompareValues, sl \in ScoreLists(CriterionNames) }

\* Maps name -> EvalResult in insertion order: a subsequence of PromptNames.
RECURSIVE CurrentMaps(_)
CurrentMaps(names) ==
    IF names = <<>> THEN {<<>>}
    ELSE LET rest == CurrentMaps(Tail(names))
         IN  rest \cup { <<[name |-> Head(names), result |-> r]>> \o m :
                           r \in CompareResults_Inputs, m \in rest }

\* BaselineFile.entries with distinct names.
RECURSIVE EntryLists(_)
EntryLists(names) ==
    IF names = <<>> THEN {<<>>}
    ELSE LET rest == EntryLists(Tail(names))
         IN  rest \cup { <<e>> \o m : e \in BaselineEntries(Head(names)), m \in rest }

BaselineFile(entries, m) ==
    [version |-> 1, generatedAt |-> "then", mode |-> m, entries |-> entries]

\* baselineMap.get(name): <<>> when undefined; a later entry of the same name wins.
BaselineGet(baseline, name) ==
    LET hits == {i \in 1..Len(baseline.entries) : baseline.entries[i].name = name}
    IN  IF hits = {} THEN <<>>
        ELSE <<baseline.entries[CHOOSE i \in hits : \A j \in hits : j <= i]>>

RECURSIVE Dedup(_, _)
\* new Set([...]) in insertion order: first occurrences of seq not already in seen.
Dedup(seq, seen) ==
    IF seq = <<>> THEN <<>>
    ELSE IF Head(seq) \in seen THEN Dedup(Tail(seq), seen)
         ELSE <<Head(seq)>> \o Dedup(Tail(seq), seen \cup {Head(seq)})

\* scores.find(s => s.criterion === criterion)?.score ?? 0, and record[criterion] ?? 0
ScoreOrZero(scores, criterion) ==
    LET hits == {i \in 1..Len(scores) : scores[i].criterion = criterion}
    IN  IF hits = {} THEN 0
        ELSE scores[CHOOSE i \in hits : \A j \in hits : i <= j].score

CriterionNamesOf(scores) == MapSeq(scores, LAMBDA s : s.criterion)

\* Mutant of CriteriaDeltas: only the criteria the baseline entry records.
CriteriaDeltas_BaselineOnly(res, base) ==
    MapSeq(CriterionNamesOf(base.scores), LAMBDA criterion :
        [criterion |-> criterion,
         current |-> ScoreOrZero(res.scores, criterion),
         baseline |-> ScoreOrZero(base.scores, criterion),
         delta |-> ScoreOrZero(res.scores, criterion) - ScoreOrZero(base.scores, criterion)])

\* The criteriaDeltas of one prompt that has the baseline entry base.
CriteriaDeltas(res, base) ==
    LET allCriteria == Dedup(CriterionNamesOf(base.scores) \o CriterionNamesOf(res.scores), {})
    IN  MapSeq(allCriteria, LAMBDA criterion :
            [criterion |-> criterion,
             current |-> ScoreOrZero(res.scores, criterion),
             baseline |-> ScoreOrZero(base.scores, criterion),
             delta |-> ScoreOrZero(res.scores, criterion)
                       - ScoreOrZero(base.scores, criterion)])

\* Mutant of Regresses: the tolerance excludes its boundary.
Regresses_AtBoundary(delta, threshold) == delta <= -threshold

\* delta < -threshold
Regresses(delta, threshold) == delta < -threshold

\* delta > threshold
Improves(delta, threshold) == delta > threshold

\* Mutant of EvaluatedDeltas: every delta counts, scored in this run or not.
EvaluatedDeltas_Unfiltered(criteriaDeltas, currentCriteriaNames) == criteriaDeltas

\* criteriaDeltas.filter(d => currentCriteriaNames.has(d.criterion))
EvaluatedDeltas(criteriaDeltas, currentCriteriaNames) ==
    SelectSeq(criteriaDeltas, LAMBDA d : d.criterion \in currentCriteriaNames)

\* Mutant of IsRegressed: only the overall delta is looked at.
IsRegressed_OverallOnly(isNew, delta, threshold, hasCriterionRegression) ==
    ~isNew /\ Regresses(delta, threshold)

\* !isNew && (delta < -threshold || hasCriterionRegression)
IsRegressed(isNew, delta, threshold, hasCriterionRegression) ==
    ~isNew /\ (Regresses(delta, threshold) \/ hasCriterionRegression)

\* Mutant of Classify: improved is tested before regressed.
Classify_ImprovedFirst(isNew, isRegressed, delta, threshold) ==
    IF isNew THEN "new"
    ELSE IF Improves(delta, threshold) THEN "improved"
    ELSE IF isRegressed THEN "regressed"
    ELSE "unchanged"

\* The if / else-if chain that counts the prompt: which counter is incremented.
Classify(isNew, isRegressed, delta, threshold) ==
    IF isNew THEN "new"
    ELSE IF isRegressed THEN "regressed"
    ELSE IF Improves(delta, threshold) THEN "improved"
    ELSE "unchanged"

NullScore == [null |-> TRUE, value |-> 0]

Number(v) == [null |-> FALSE, value |-> v]

\* Mutant of OverallDelta: a missing baseline score counts as 0.
OverallDelta_FromZero(currentScore, baselineScore) == currentScore - baselineScore.value

\* baselineScore !== null ? currentScore - baselineScore : 0
OverallDelta(currentScore, baselineScore) ==
    IF ~baselineScore.null THEN currentScore - baselineScore.value ELSE 0

EmptyTally ==
    [prompts |-> <<>>, regressed |-> 0, improved |-> 0, unchanged |-> 0,
     newCount |-> 0, criterionRegressionCount |-> 0]

Bump(kind, which) == IF kind = which THEN 1 ELSE 0

\* Mutant of RegressionCount: one per prompt that has a regressed criterion.
RegressionCount_PerPrompt(regressedDeltas) == IF regressedDeltas /= <<>> THEN 1 ELSE 0

\* if (hasCriterionRegression) criterionRegressionCount += <the filtered list>.length
RegressionCount(regressedDeltas) ==
    IF regressedDeltas /= <<>> THEN Len(regressedDeltas) ELSE 0

\* Mutant of Passed: a new prompt fails the comparison too.
Passed_NoneNew(acc) == acc.regressed = 0 /\ acc.newCount = 0

\* passed: regressed === 0
Passed(acc) == acc.regressed = 0

\* One iteration of the loop over current: acc is the state of the loop's locals.
CompareStep(acc, name, res, baseline, threshold) ==
    LET base == BaselineGet(baseline, name)
        isNew == base = <<>>
        currentScore == res.overallScore
        baselineScore == IF isNew THEN NullScore ELSE Number(base[1].overallScore)
        delta == OverallDelta(currentScore, baselineScore)
        criteriaDeltas == IF isNew THEN <<>> ELSE CriteriaDeltas(res, base[1])
        evaluatedDeltas == EvaluatedDeltas(criteriaDeltas, Range(CriterionNamesOf(res.scores)))
        regressedDeltas == SelectSeq(evaluatedDeltas, LAMBDA d : Regresses(d.delta, threshold))
        hasCriterionRegression == regressedDeltas /= <<>>
        isRegressed == IsRegressed(isNew, delta, threshold, hasCriterionRegression)
        kind == Classify(isNew, isRegressed, delta, threshold)
    IN  [prompts |-> Append(acc.prompts,
                        [name |-> name, contentType |-> res.contentType,
                         currentScore |-> currentScore, baselineScore |-> baselineScore,
                         delta |-> delta, regressed |-> isRegressed, newPrompt |-> isNew,
                         criteriaDeltas |-> criteriaDeltas]),
         regressed |-> acc.regressed + Bump(kind, "regressed"),
         improved |-> acc.improved + Bump(kind, "improved"),
         unchanged |-> acc.unchanged + Bump(kind, "unchanged"),
         newCount |-> acc.newCount + Bump(kind, "new"),
         criterionRegressionCount |-> acc.criterionRegressionCount
                                        + RegressionCount(regressedDeltas)]

RECURSIVE CompareLoop(_, _, _, _)
CompareLoop(acc, current, baseline, threshold) ==
    IF current = <<>> THEN acc
    ELSE CompareLoop(CompareStep(acc, Head(current).name, Head(current).result,
                                 baseline, threshold),
                     Tail(current), baseline, threshold)

\* Mutant of compareResults: a baseline entry without a current result counts
\* as a regression.
compareResults_MissingRegressed(current, baseline, threshold) ==
    LET acc == CompareLoop(EmptyTally, current, baseline, threshold)
        missing == Cardinality({i \in 1..Len(baseline.entries) :
                       \A k \in 1..Len(current) : current[k].name /= baseline.entries[i].name})
    IN  [passed |-> Passed(acc) /\ missing = 0,
         prompts |-> acc.prompts,
         summary |-> [total |-> Len(acc.prompts) + missing,
                      regressed |-> acc.regressed + missing,
                      improved |-> acc.improved,
                      unchanged |-> acc.unchanged,
                      new |-> acc.newCount,
                      criterionRegressions |-> acc.criterionRegressionCount]]

compareResults(current, baseline, threshold) ==
    LET acc == CompareLoop(EmptyTally, current, baseline, threshold)
    IN  [passed |-> Passed(acc),
         prompts |-> acc.prompts,
         summary |-> [total |-> Len(acc.prompts),
                      regressed |-> acc.regressed,
                      improved |-> acc.improved,
                      unchanged |-> acc.unchanged,
                      new |-> acc.newCount,
                      criterionRegressions |-> acc.criterionRegressionCount]]

\* No comparison is under way.
CompareIdle ==
    /\ cmpCurrent = <<>>
    /\ cmpBaseline = BaselineFile(<<>>, "full")
    /\ cmpThreshold = 0
    /\ comparison = <<>>

\* No Runner call is under way (the comparator's specification).
RunnerIdle ==
    /\ criteria = <<>>
    /\ judge = FALSE
    /\ pc = "idle"
    /\ mode = "none"
    /\ contentType = ""
    /\ task = [n \in Names |-> IdleTask]
    /\ result = <<>>
    /\ error = NoError
    /\ judgeCalls = 0
    /\ invoked = [n \in Names |-> 0]
    /\ settled = <<>>
    /\ selected = <<>>

InitCompare ==
    /\ RunnerIdle
    /\ FactoryIdle
    /\ FeedbackIdle
    /\ RetryIdle
    /\ CommandIdle
    /\ cmpCurrent \in CurrentMaps(PromptNames)
    /\ cmpBaseline \in {BaselineFile(es, m) : es \in EntryLists(PromptNames), m \in {"full"}}
    /\ cmpThreshold \in Thresholds
    /\ comparison = <<>>

\* compareResults(current, baseline, threshold) is called and returns.
Compare ==
    /\ comparison = <<>>
    /\ comparison' = <<compareResults(cmpCurrent, cmpBaseline, cmpThreshold)>>
    /\ UNCHANGED <<cmpCurrent, cmpBaseline, cmpThreshold>>
    /\ UNCHANGED outsideCompare

NextCompare == Compare

SpecCompare == InitCompare /\ [][NextCompare]_vars

\* ------------------------------------------------- one call on the Runner
Pending(withJudge) == [status |-> "pending", withJudge |-> withJudge, out |-> NoScore]

\* seq.map(c => c.evaluate(input, j)): every criterion of seq gets a pending promise.
Dispatch(seq, withJudge) ==
    [n \in Names |-> IF n \in {c.name : c \in Range(seq)} THEN Pending(withJudge) ELSE task[n]]

\* seq.map(c => c.evaluate(...)) invokes the evaluate of every criterion of seq once.
Invoke(seq) ==
    [n \in Names |-> invoked[n] + Cardinality({i \in 1..Len(seq) : seq[i].name = n})]

\* Mutant of AllResolved: the join does not wait for promises still pending.
AllResolved_NoneRejected(seq) == \A c \in Range(seq) : task[c.name].status /= "rejected"

\* Mutant of AllResolved: the promises are not awaited at all.
AllResolved_NotAwaited(seq) == TRUE

AllResolved(seq) == \A c \in Range(seq) : task[c.name].status = "resolved"

\* Mutant of ScoresOf: the scores in the order their promises settled.
ScoresOf_AsSettled(seq) ==
    LET names == SelectSeq(settled, LAMBDA n : n \in {c.name : c \in Range(seq)})
    IN  [k \in 1..Len(names) |-> task[names[k]].out]

\* await Promise.all(promises): the values in the order of the promises.
ScoresOf(seq) == MapSeq(seq, LAMBDA c : task[c.name].out)

CriterionNamed(n) == criteria[CHOOSE i \in Idx : criteria[i].name = n]

Init ==
    /\ criteria \in Catalogs
    /\ judge \in BOOLEAN
    /\ pc = "idle"
    /\ mode = "none"
    /\ contentType = ""
    /\ task = [n \in Names |-> IdleTask]
    /\ result = <<>>
    /\ error = NoError
    /\ judgeCalls = 0
    /\ invoked = [n \in Names |-> 0]
    /\ settled = <<>>
    /\ selected = <<>>
    /\ CompareIdle
    /\ FactoryIdle
    /\ FeedbackIdle
    /\ RetryIdle
    /\ CommandIdle

\* getCriteria(contentType) is called from outside and returns; it reads the
\* catalog and changes nothing of the Runner.
CallGetCriteria(ct) ==
    /\ pc = "idle"
    /\ pc' = "listed"
    /\ contentType' = ct
    /\ selected' = getCriteria(ct)
    /\ UNCHANGED <<criteria, judge, mode, task, result, error, judgeCalls>>
    /\ UNCHANGED <<invoked, settled>>
    /\ UNCHANGED <<compareVars, factoryVars, feedbackVars, retryVars, commandVars>>

\* evaluate(input) up to its first await: the deterministic criteria are started.
CallEvaluate(ct) ==
    /\ pc = "idle"
    /\ pc' = "det"
    /\ mode' = "evaluate"
    /\ contentType' = ct
    /\ task' = Dispatch(Deterministic(getCriteria(ct)), FALSE)
    /\ invoked' = Invoke(Deterministic(getCriteria(ct)))
    /\ UNCHANGED settled
    /\ UNCHANGED outsideCall
    /\ UNCHANGED <<criteria, judge, result, error, judgeCalls>>

\* quickCheck(input) up to its await.
CallQuickCheck(ct) ==
    /\ pc = "idle"
    /\ pc' = "quick"
    /\ mode' = "quickCheck"
    /\ contentType' = ct
    /\ task' = Dispatch(QuickApplicable(ct), FALSE)
    /\ invoked' = Invoke(QuickApplicable(ct))
    /\ UNCHANGED settled
    /\ UNCHANGED outsideCall
    /\ UNCHANGED <<criteria, judge, result, error, judgeCalls>>

\* A judged criterion, given the Judge, calls judge.score.
JudgeScore(n) ==
    /\ task[n].status = "pending"
    /\ task[n].withJudge
    /\ task' = [task EXCEPT ![n].status = "judging"]
    /\ judgeCalls' = judgeCalls + 1
    /\ UNCHANGED <<invoked, settled>>
    /\ UNCHANGED outsideCall
    /\ UNCHANGED <<criteria, judge, pc, mode, contentType, result, error>>

\* A criterion's evaluate resolves with a score.
Resolve(n, out) ==
    /\ task[n].status \in {"pending", "judging"}
    /\ task' = [task EXCEPT ![n].status = "resolved", ![n].out = out]
    /\ settled' = Append(settled, n)
    /\ UNCHANGED invoked
    /\ UNCHANGED outsideCall
    /\ UNCHANGED <<criteria, judge, pc, mode, contentType, result, error, judgeCalls>>

\* Mutant of Awaiting: a rejection is swallowed, the call is never failed by it.
Awaiting_Swallowed == FALSE

\* Whether the call is still awaiting the Promise.all that holds n's promise.
Awaiting == pc \in {"quick", "det", "llm"}

\* A criterion's evaluate rejects.  Promise.all rejects with the first rejection,
\* and with it the awaiting call; the other promises stay in flight.
Reject(n) ==
    /\ task[n].status \in {"pending", "judging"}
    /\ task' = [task EXCEPT ![n].status = "rejected"]
    /\ IF Awaiting
       THEN pc' = "failed" /\ error' = CriterionError(CriterionNamed(n))
       ELSE UNCHANGED <<pc, error>>
    /\ settled' = Append(settled, n)
    /\ UNCHANGED invoked
    /\ UNCHANGED outsideCall
    /\ UNCHANGED <<criteria, judge, mode, contentType, result, judgeCalls>>

\* quickCheck after its await: every dispatched promise resolved.
QuickJoin ==
    /\ pc = "quick"
    /\ LET applicable == QuickApplicable(contentType)
       IN  /\ AllResolved(applicable)
           /\ result' = <<buildResult(ScoresOf(applicable), applicable, contentType)>>
    /\ pc' = "returned"
    /\ UNCHANGED <<invoked, settled>>
    /\ UNCHANGED outsideCall
    /\ UNCHANGED <<criteria, judge, mode, contentType, task, error, judgeCalls>>

\* Mutant of JudgeMissing: the judged criteria are run without the check.
JudgeMissing_Never(llm) == FALSE

\* if (!this.judge) throw ..., reached for the first judged criterion of llm.
JudgeMissing(llm) == llm /= <<>> /\ ~judge

\* evaluate after its first await: the judged criteria are started, or the
\* map callback throws on the first of them when there is no Judge.
DetJoin ==
    /\ pc = "det"
    /\ LET applicable == getCriteria(contentType)
           llm == Llm(applicable)
       IN  /\ AllResolved(Deterministic(applicable))
           /\ IF JudgeMissing(llm)
              THEN /\ pc' = "failed"
                   /\ error' = JudgeRequired(llm[1])
                   /\ UNCHANGED <<task, invoked>>
              ELSE /\ pc' = "llm"
                   /\ task' = Dispatch(llm, TRUE)
                   /\ invoked' = Invoke(llm)
                   /\ UNCHANGED error
    /\ UNCHANGED settled
    /\ UNCHANGED outsideCall
    /\ UNCHANGED <<criteria, judge, mode, contentType, result, judgeCalls>>

\* evaluate after its second await.
LlmJoin ==
    /\ pc = "llm"
    /\ LET applicable == getCriteria(contentType)
           deterministic == Deterministic(applicable)
           llm == Llm(applicable)
       IN  /\ AllResolved(llm)
           /\ result' = <<buildResult(ScoresOf(deterministic) \o ScoresOf(llm),
                                      applicable, contentType)>>
    /\ pc' = "returned"
    /\ UNCHANGED <<invoked, settled>>
    /\ UNCHANGED outsideCall
    /\ UNCHANGED <<criteria, judge, mode, contentType, task, error, judgeCalls>>

Next ==
    \/ \E ct \in ContentTypes : CallGetCriteria(ct)
    \/ \E ct \in ContentTypes : CallEvaluate(ct)
    \/ \E ct \in ContentTypes : CallQuickCheck(ct)
    \/ \E n \in Names : JudgeScore(n)
    \/ \E n \in Names : \E out \in Outcomes(CriterionNamed(n)) : Resolve(n, out)
    \/ \E n \in Names : Reject(n)
    \/ QuickJoin
    \/ DetJoin
    \/ LlmJoin

Spec == Init /\ [][Next]_vars

\* ================================================================ claims
\* ---------------------------------------------------- Runner (Spec)
Returned == result /= <<>>

\* The criteria the call under way runs: those applicable to the input's
\* content type, and only the deterministic ones in quickCheck.
RunsInCall(c) ==
    /\ Applies(c, contentType)
    /\ mode = "evaluate" \/ (mode = "quickCheck" /\ c.method = "deterministic")

InFlight(n) == task[n].status \in {"pending", "judging"}

\* C1: a returned Result has passed = TRUE exactly when every produced score
\* of a criterion not marked optional in the catalog has passed = TRUE.
C1_PassedIffRequiredPass ==
    Returned =>
        (result[1].passed <=>
            \A i \in 1..Len(result[1].scores) :
                LET s == result[1].scores[i]
                IN  CriterionNamed(s.criterion).optional \/ s.passed)

\* C1 witness: a Result with a failed optional score and passed = TRUE, next
\* to a required score.
C1_Witness ==
    /\ Returned
    /\ result[1].passed
    /\ Len(result[1].scores) = 2
    /\ \E i \in 1..2 : /\ ~result[1].scores[i].passed
                       /\ CriterionNamed(result[1].scores[i].criterion).optional
    /\ \E i \in 1..2 : ~CriterionNamed(result[1].scores[i].criterion).optional

\* C2: overallScore of a returned Result is sum(score * weight) / sum(weight)
\* over the criteria the call ran, each with its own catalog weight and the score
\* its evaluate resolved with; it is 0 when the total weight is 0.
C2_WeightedMean ==
    Returned =>
        LET W == SumSeq(MapSeq(criteria, LAMBDA c : IF RunsInCall(c) THEN c.weight ELSE 0))
            S == SumSeq(MapSeq(criteria, LAMBDA c :
                     IF RunsInCall(c) THEN c.weight * task[c.name].out.score ELSE 0))
            o == result[1].overallScore
        IN  /\ o.den > 0
            /\ IF W = 0 THEN o.num = 0 ELSE o.num * W = S * o.den

\* C2 witness: two scores of different values under different weights.
C2_Witness ==
    /\ Returned
    /\ Len(result[1].scores) = 2
    /\ result[1].scores[1].score /= result[1].scores[2].score
    /\ criteria[1].weight /= criteria[2].weight
    /\ result[1].overallScore.num > 0

\* The first judged criterion applicable to the call's input.
FirstJudged == Llm(getCriteria(contentType))[1]

NoJudgeButNeeded ==
    mode = "evaluate" /\ ~judge /\ Llm(getCriteria(contentType)) /= <<>>

CallOver == pc \in {"returned", "failed"}

\* C3 as claimed: without a Judge and with a judged criterion applicable,
\* evaluate ends with the judge-required error and without a Result.
C3_AlwaysJudgeRequired ==
    (NoJudgeButNeeded /\ CallOver) =>
        /\ pc = "failed"
        /\ result = <<>>
        /\ \E c \in Range(Llm(getCriteria(contentType))) : error = JudgeRequired(c)

\* C3 amended: such a call never returns a Result; it fails with the
\* judge-required error naming the first applicable judged criterion once every
\* applicable deterministic criterion has resolved, and with a deterministic
\* criterion's own error when one of them rejects first.
C3_JudgeRequiredAfterDeterministic ==
    NoJudgeButNeeded =>
        /\ pc /= "returned" /\ result = <<>>
        /\ pc = "failed" =>
             IF \E c \in Range(Deterministic(getCriteria(contentType))) :
                    task[c.name].status = "rejected"
             THEN \E c \in Range(Deterministic(getCriteria(contentType))) :
                    error = CriterionError(c) /\ task[c.name].status = "rejected"
             ELSE error = JudgeRequired(FirstJudged)
        /\ (pc = "det" /\ AllResolved(Deterministic(getCriteria(contentType)))) =>
             ENABLED DetJoin

\* C3 witness: the judge-required failure after a deterministic score was produced.
C3_Witness ==
    /\ NoJudgeButNeeded
    /\ pc = "failed"
    /\ error = JudgeRequired(FirstJudged)
    /\ \E n \in Names : task[n].status = "resolved"

\* C4: in quickCheck no judged criterion is invoked, the Judge is never
\* called, and the Result holds one score per applicable deterministic criterion
\* and none of a judged criterion.
C4_QuickCheckDeterministicOnly ==
    mode = "quickCheck" =>
        /\ judgeCalls = 0
        /\ \A i \in Idx : criteria[i].method = "llm_judge" =>
                            task[criteria[i].name].status = "idle"
        /\ Returned =>
             LET scored == CriterionNamesOf(result[1].scores)
                 wanted == {c.name : c \in {x \in Range(criteria) :
                              Applies(x, contentType) /\ x.method = "deterministic"}}
             IN  /\ Range(scored) = wanted
                 /\ Len(scored) = Cardinality(wanted)

\* C4 witness: quickCheck returned a score on a Runner that has a Judge and an
\* applicable judged criterion.
C4_Witness ==
    /\ mode = "quickCheck"
    /\ Returned
    /\ judge
    /\ Len(result[1].scores) = 1
    /\ \E i \in Idx : criteria[i].method = "llm_judge" /\ Applies(criteria[i], contentType)

\* C5 as claimed: the call neither returns nor fails while a criterion it
\* dispatched is still in flight.
C5_NoCompletionWhileInFlight ==
    CallOver => \A n \in Names : ~InFlight(n)

\* C5 amended: the call returns only when every criterion it dispatched has
\* resolved, and its Result holds the score of each of them; a rejected criterion
\* fails the call, at once, also while others are in flight.
C5_ReturnsAfterAllResolved ==
    /\ pc = "returned" =>
         /\ \A i \in Idx : IF RunsInCall(criteria[i])
                           THEN task[criteria[i].name].status = "resolved"
                           ELSE task[criteria[i].name].status = "idle"
         /\ Returned
         /\ \A i \in Idx : RunsInCall(criteria[i]) =>
                \E k \in 1..Len(result[1].scores) :
                    result[1].scores[k] = task[criteria[i].name].out
    /\ Returned => pc = "returned"
    /\ (\E n \in Names : task[n].status = "rejected") => (pc = "failed" /\ result = <<>>)

\* C5 witness: the call has failed while another criterion is in flight.
C5_Witness ==
    /\ pc = "failed"
    /\ \E n \in Names : task[n].status = "rejected"
    /\ \E n \in Names : InFlight(n)

\* ------------------------------------------- compareResults (SpecCompare)
Compared == comparison /= <<>>

Current(i) == cmpCurrent[i].result

Prompt(i) == comparison[1].prompts[i]

Summary == comparison[1].summary

HasEntry(i) == \E e \in Range(cmpBaseline.entries) : e.name = cmpCurrent[i].name

EntryOf(i) == CHOOSE e \in Range(cmpBaseline.entries) : e.name = cmpCurrent[i].name

\* The score the baseline entry records for a criterion, 0 when it records none.
Recorded(i, criterion) ==
    IF \E s \in Range(EntryOf(i).scores) : s.criterion = criterion
    THEN (CHOOSE s \in Range(EntryOf(i).scores) : s.criterion = criterion).score
    ELSE 0

\* The positions of prompt i's current scores that dropped by more than the threshold.
EvaluatedDrops(i) ==
    {k \in 1..Len(Current(i).scores) :
        Current(i).scores[k].score - Recorded(i, Current(i).scores[k].criterion)
            < -cmpThreshold}

OverallDeltaOf(i) == Current(i).overallScore - EntryOf(i).overallScore

\* The criteria prompt i's baseline entry records and the current run did not score.
BaselineOnly(i) ==
    {s.criterion : s \in Range(EntryOf(i).scores)}
        \ {s.criterion : s \in Range(Current(i).scores)}

PromptsAligned ==
    /\ Len(comparison[1].prompts) = Len(cmpCurrent)
    /\ \A i \in 1..Len(cmpCurrent) : Prompt(i).name = cmpCurrent[i].name

\* C6: a prompt is regressed exactly when its name has a baseline entry and
\* its overall delta is below -threshold or a criterion scored in the current run
\* dropped by more than threshold.
C6_RegressedIff ==
    Compared =>
        /\ PromptsAligned
        /\ \A i \in 1..Len(cmpCurrent) :
             Prompt(i).regressed <=>
                (HasEntry(i) /\ (OverallDeltaOf(i) < -cmpThreshold \/ EvaluatedDrops(i) /= {}))

\* C6 witness: overall score unchanged, a scored criterion dropped by more
\* than a positive threshold, prompt regressed.
C6_Witness ==
    /\ Compared
    /\ cmpThreshold > 0
    /\ \E i \in 1..Len(cmpCurrent) :
         HasEntry(i) /\ OverallDeltaOf(i) = 0 /\ EvaluatedDrops(i) /= {} /\ Prompt(i).regressed

\* C7: criteria only the baseline records never make a prompt regressed:
\* a regressed prompt has an overall drop or a drop of a criterion scored in the
\* current run, and criterionRegressions counts no more than those drops.
C7_BaselineOnlyIgnored ==
    Compared =>
        /\ PromptsAligned
        /\ \A i \in 1..Len(cmpCurrent) :
             (HasEntry(i) /\ Prompt(i).regressed) =>
                (OverallDeltaOf(i) < -cmpThreshold \/ EvaluatedDrops(i) /= {})
        /\ Summary.criterionRegressions <=
             SumSeq([i \in 1..Len(cmpCurrent) |->
                        IF HasEntry(i) THEN Cardinality(EvaluatedDrops(i)) ELSE 0])

\* C7 witness: a prompt whose baseline entry records a criterion the current
\* run did not score (its delta is far below -threshold), not regressed and not
\* counted.
C7_Witness ==
    /\ Compared
    /\ Summary.criterionRegressions = 0
    /\ \E i \in 1..Len(cmpCurrent) :
         /\ HasEntry(i)
         /\ BaselineOnly(i) /= {}
         /\ \E d \in Range(Prompt(i).criteriaDeltas) :
              d.criterion \in BaselineOnly(i) /\ d.delta < -cmpThreshold
         /\ ~Prompt(i).regressed

\* The prompts with a baseline entry whose overall delta is exactly -threshold
\* and whose scored criteria all stay within the threshold.
AtBoundary ==
    {i \in 1..Len(cmpCurrent) :
        HasEntry(i) /\ OverallDeltaOf(i) = -cmpThreshold /\ EvaluatedDrops(i) = {}}

\* C8: the tolerance is inclusive: a prompt at the boundary is not regressed
\* and counts as unchanged; an overall delta strictly below -threshold is regressed.
C8_ThresholdInclusive ==
    Compared =>
        /\ PromptsAligned
        /\ \A i \in AtBoundary : ~Prompt(i).regressed
        /\ Cardinality(AtBoundary) <= Summary.unchanged
        /\ Summary.regressed <= Len(cmpCurrent) - Cardinality(AtBoundary)
        /\ \A i \in 1..Len(cmpCurrent) :
             (HasEntry(i) /\ OverallDeltaOf(i) < -cmpThreshold) => Prompt(i).regressed

\* C8 witness: threshold 0.10, overall delta exactly -0.10 and a scored
\* criterion at exactly -0.10 too, the only prompt, counted unchanged.
C8_Witness ==
    /\ Compared
    /\ cmpThreshold = 10
    /\ Len(cmpCurrent) = 1
    /\ 1 \in AtBoundary
    /\ OverallDeltaOf(1) = -10
    /\ \E k \in 1..Len(Current(1).scores) :
         Current(1).scores[k].score - Recorded(1, Current(1).scores[k].criterion) = -10
    /\ Summary.unchanged = 1

NewPrompts == {i \in 1..Len(cmpCurrent) : ~HasEntry(i)}

\* C9: a current result without a baseline entry is new: newPrompt, null
\* baseline score, delta 0, not regressed, no criteriaDeltas; it is counted in
\* summary.new and in no other counter, and adds nothing to criterionRegressions.
C9_NewPromptNeutral ==
    Compared =>
        /\ PromptsAligned
        /\ \A i \in NewPrompts :
             /\ Prompt(i).newPrompt
             /\ Prompt(i).baselineScore = NullScore
             /\ Prompt(i).delta = 0
             /\ ~Prompt(i).regressed
             /\ Prompt(i).criteriaDeltas = <<>>
        /\ Summary.new = Cardinality(NewPrompts)
        /\ Summary.regressed + Summary.improved + Summary.unchanged
             = Len(cmpCurrent) - Cardinality(NewPrompts)
        /\ Cardinality(NewPrompts) = Len(cmpCurrent) => Summary.criterionRegressions = 0

\* C9 witness: a new prompt with scores next to a prompt that has a baseline.
C9_Witness ==
    /\ Compared
    /\ Len(cmpCurrent) = 2
    /\ Summary.new = 1
    /\ \E i \in NewPrompts : Prompt(i).newPrompt /\ Len(Current(i).scores) = 2

\* The class of prompt i by the priority new, regressed, improved, unchanged.
ClassOf(i) ==
    IF Prompt(i).newPrompt THEN "new"
    ELSE IF Prompt(i).regressed THEN "regressed"
    ELSE IF Prompt(i).delta > cmpThreshold THEN "improved"
    ELSE "unchanged"

CountOf(class) == Cardinality({i \in 1..Len(cmpCurrent) : ClassOf(i) = class})

\* C10: every current result is counted in exactly one of new, regressed,
\* improved, unchanged, tested in that order, and the four counters add up to
\* total, the number of current results.
C10_ClassificationPartition ==
    Compared =>
        /\ PromptsAligned
        /\ Summary.total = Len(cmpCurrent)
        /\ Summary.new + Summary.regressed + Summary.improved + Summary.unchanged
             = Summary.total
        /\ Summary.new = CountOf("new")
        /\ Summary.regressed = CountOf("regressed")
        /\ Summary.improved = CountOf("improved")
        /\ Summary.unchanged = CountOf("unchanged")
        /\ \A i \in 1..Len(cmpCurrent) :
             Prompt(i).delta = IF HasEntry(i) THEN OverallDeltaOf(i) ELSE 0

\* C10 witness: overall delta above the threshold, a scored criterion
\* regressed: counted regressed, not improved.
C10_Witness ==
    /\ Compared
    /\ Len(cmpCurrent) = 1
    /\ HasEntry(1)
    /\ OverallDeltaOf(1) > cmpThreshold
    /\ EvaluatedDrops(1) /= {}
    /\ Summary.regressed = 1
    /\ Summary.improved = 0

\* C11: the comparison passes exactly when summary.regressed is 0, which is
\* exactly when no prompt of prompts is regressed; an empty current map gives a
\* passing comparison of total 0.
C11_PassedIffNoneRegressed ==
    Compared =>
        /\ PromptsAligned
        /\ comparison[1].passed <=> (Summary.regressed = 0)
        /\ comparison[1].passed <=> (\A i \in 1..Len(cmpCurrent) : ~Prompt(i).regressed)
        /\ cmpCurrent = <<>> =>
              (comparison[1].passed /\ Summary.total = 0 /\ comparison[1].prompts = <<>>)

\* C11 witness: two prompts, one regressed and one new: the comparison fails
\* on the regressed one alone.
C11_Witness ==
    /\ Compared
    /\ Len(cmpCurrent) = 2
    /\ ~comparison[1].passed
    /\ Summary.regressed = 1
    /\ Summary.new = 1

\* C12: criterionRegressions is the number of (prompt, criterion) pairs where
\* the prompt has a baseline entry, the criterion is scored in the current run
\* and its score fell by more than the threshold.
C12_CriterionRegressionsCountCriteria ==
    Compared =>
        /\ PromptsAligned
        /\ Summary.criterionRegressions =
             SumSeq([i \in 1..Len(cmpCurrent) |->
                        IF HasEntry(i) THEN Cardinality(EvaluatedDrops(i)) ELSE 0])

\* C12 witness: one regressed prompt with two regressed criteria, next to a
\* prompt without any: two criteria counted, one prompt.
C12_Witness ==
    /\ Compared
    /\ Len(cmpCurrent) = 2
    /\ Summary.regressed = 1
    /\ Summary.criterionRegressions = 2
    /\ \E i \in 1..Len(cmpCurrent) : HasEntry(i) /\ Cardinality(EvaluatedDrops(i)) = 2

\* ---------------------------------------------------- Runner (Spec), README
\* C13: the README's pass/fail rule: a returned Result has passed = TRUE only
\* if every score of scores has passed = TRUE.
C13_PassedOnlyIfEveryScorePassed ==
    (Returned /\ result[1].passed) =>
        \A i \in 1..Len(result[1].scores) : result[1].scores[i].passed

\* ======================================================= createCriterion
\* A criterion built from at most MaxAssertions assertions.
MaxAssertions == 3

\* threshold = 1.0 when the config leaves it out.
DefaultThreshold == 100

\* The AssertionResult of the i-th assertion: {passed, score, reasoning}.
AssertionResult(i, p, s) == [passed |-> p, score |-> s, reasoning |-> <<"assertion", i>>]

\* assertions.map(a => a(content)) over every content and every assertion list:
\* passed and score are the assertion's own and need not agree.
AssertionLists ==
    UNION { { [i \in 1..n |-> AssertionResult(i, f[i][1], f[i][2])] :
                f \in [1..n -> BOOLEAN \X ScoreValues] } : n \in 0..MaxAssertions }

ConfigModes == {"unset", "all", "any"}

ConfigThresholds == {NoNumber} \cup {Given(v) : v \in ScoreValues}

\* mode = 'all' when the config leaves it out.
ModeOrAll(m) == IF m = "unset" THEN "all" ELSE m

ThresholdOrDefault(t) == IF t.given THEN t.value ELSE DefaultThreshold

\* Math.min(...values), Math.max(...values) of a non-empty list.
MinOf(values) == CHOOSE v \in Range(values) : \A u \in Range(values) : v <= u

MaxOf(values) == CHOOSE v \in Range(values) : \A u \in Range(values) : u <= v

\* Mutant of CombinedScore: the minimum in either mode.
CombinedScore_MinAlways(results, m) ==
    IF Len(results) = 0 THEN 100 ELSE MinOf([i \in 1..Len(results) |-> results[i].score])

\* The score of the built criterion: 1 without assertions, else max or min.
CombinedScore(results, m) ==
    LET values == [i \in 1..Len(results) |-> results[i].score]
    IN  IF Len(results) = 0 THEN 100
        ELSE IF m = "any" THEN MaxOf(values)
        ELSE MinOf(values)

\* strings.join('; '): the strings with the separator between neighbours.
RECURSIVE Join(_, _)
Join(strings, sep) ==
    IF Len(strings) <= 1 THEN strings
    ELSE <<Head(strings), sep>> \o Join(Tail(strings), sep)

\* Mutant of JoinReasoning: no sentence of its own for the empty list.
JoinReasoning_NoSentinel(results) ==
    Join([i \in 1..Len(results) |-> results[i].reasoning], "; ")

JoinReasoning(results) ==
    IF Len(results) = 0 THEN <<"No assertions to check">>
    ELSE Join([i \in 1..Len(results) |-> results[i].reasoning], "; ")

\* Mutant of FailedReasonings: the assertions below a full score.
FailedReasonings_BelowFull(results) ==
    LET failed == SelectSeq(results, LAMBDA r : r.score < 100)
    IN  [i \in 1..Len(failed) |-> failed[i].reasoning]

\* results.filter(r => !r.passed).map(r => r.reasoning)
FailedReasonings(results) ==
    LET failed == SelectSeq(results, LAMBDA r : ~r.passed)
    IN  [i \in 1..Len(failed) |-> failed[i].reasoning]

\* evaluate(input) of the criterion createCriterion returns, from the results
\* of its assertions on the transformed content.
CriterionEvaluate(results, configMode, configThreshold) ==
    LET score == CombinedScore(results, ModeOrAll(configMode))
    IN  [criterion |-> "built",
         score |-> score,
         rawScore |-> score,
         maxScore |-> 100,
         passed |-> score >= ThresholdOrDefault(configThreshold),
         reasoning |-> JoinReasoning(results),
         suggestions |-> Some(FailedReasonings(results))]

InitFactory ==
    /\ RunnerIdle
    /\ CompareIdle
    /\ FeedbackIdle
    /\ RetryIdle
    /\ CommandIdle
    /\ crAssertions \in AssertionLists
    /\ crMode \in ConfigModes
    /\ crThreshold \in ConfigThresholds
    /\ crScore = <<>>

\* The built criterion's evaluate is called and resolves.
EvaluateBuilt ==
    /\ crScore = <<>>
    /\ crScore' = <<CriterionEvaluate(crAssertions, crMode, crThreshold)>>
    /\ UNCHANGED <<crAssertions, crMode, crThreshold>>
    /\ UNCHANGED <<runnerVars, selected, compareVars, feedbackVars, retryVars, commandVars>>

NextFactory == EvaluateBuilt

SpecFactory == InitFactory /\ [][NextFactory]_vars

\* ------------------------------------------- createCriterion (SpecFactory)
Evaluated == crScore /= <<>>

AssertionScores == {crAssertions[i].score : i \in 1..Len(crAssertions)}

\* C14: with at least one assertion the score is the least assertion score in
\* mode 'all' (also when no mode is given) and the greatest in mode 'any', and
\* passed is exactly score >= threshold, the threshold being 1 when none is given.
C14_CombinedScoreMinMax ==
    (Evaluated /\ crAssertions /= <<>>) =>
        /\ crScore[1].score \in AssertionScores
        /\ crMode = "any" => \A u \in AssertionScores : u <= crScore[1].score
        /\ crMode /= "any" => \A u \in AssertionScores : crScore[1].score <= u
        /\ crScore[1].passed <=>
             crScore[1].score >= (IF crThreshold.given THEN crThreshold.value ELSE 100)

\* C14 witness: mode 'any', scores 0.5 and 1, no threshold given: score 1, passed.
C14_Witness ==
    /\ Evaluated
    /\ crMode = "any"
    /\ crThreshold = NoNumber
    /\ Len(crAssertions) = 2
    /\ crAssertions[1].score = 50
    /\ crAssertions[2].score = 100
    /\ crScore[1].score = 100
    /\ crScore[1].passed

\* C15: without assertions the score is 1 and passed, the reasoning is the
\* fixed sentence and there are no suggestions, whatever the mode and the
\* threshold (at most 1).
C15_EmptyAssertionsPass ==
    (Evaluated /\ crAssertions = <<>>) =>
        /\ crScore[1].score = 100
        /\ crScore[1].passed
        /\ crScore[1].reasoning = <<"No assertions to check">>
        /\ crScore[1].suggestions = Some(<<>>)

\* C15 witness: no assertions, mode 'any', threshold 1.
C15_Witness ==
    /\ Evaluated
    /\ crAssertions = <<>>
    /\ crMode = "any"
    /\ crThreshold = Given(100)
    /\ crScore[1].passed

FailedAssertions == {i \in 1..Len(crAssertions) : ~crAssertions[i].passed}

\* C16: suggestions holds, in assertion order, the reasoning of each assertion
\* whose own passed flag is false and nothing else, whether or not the
\* criterion as a whole passed.
C16_SuggestionsOfFailedAssertions ==
    Evaluated =>
        /\ crScore[1].suggestions.defined
        /\ Len(crScore[1].suggestions.items) = Cardinality(FailedAssertions)
        /\ \A i \in FailedAssertions :
             crScore[1].suggestions.items[1 + Cardinality({j \in FailedAssertions : j < i})]
                = crAssertions[i].reasoning

\* C16 witness: three assertions, the first and the last failed on their own
\* with a full score, the criterion passes: both are listed, in order.
C16_Witness ==
    /\ Evaluated
    /\ Len(crAssertions) = 3
    /\ FailedAssertions = {1, 3}
    /\ crAssertions[1].score = 100
    /\ crScore[1].passed
    /\ crScore[1].suggestions.items = << <<"assertion", 1>>, <<"assertion", 3>> >>

\* ================================================ buildResult on its own
\* The criteria applicable to one input, in catalog order.
FeedbackNames == <<"format", "depth", "tone">>

\* Scores below and on the 0.75 line.
FeedbackValues == {50, 75}

\* The name a custom criterion's evaluate may put into its score instead of
\* its own: a name the weight map does not know.
UnknownName == "custom"

\* applicable: the criteria of FeedbackNames, each with a weight of its own.
FeedbackApplicable ==
    { [i \in 1..Len(FeedbackNames) |->
          Criterion(FeedbackNames[i], Wildcard, "deterministic", w[i], FALSE)] :
        w \in [1..Len(FeedbackNames) -> 1..MaxWeight] }

\* A score the criterion c can resolve with: any value, any passed flag (each
\* criterion has a threshold of its own), with or without suggestions, under
\* its own name or one the catalog does not know.
FeedbackOutcome(c, v, p, withSuggestions, ownName) ==
    [Score(c, v, p, IF withSuggestions THEN Some(<< <<"fix", c.name>> >>) ELSE Undefined)
        EXCEPT !.criterion = IF ownName THEN c.name ELSE UnknownName]

\* scores: one score per applicable criterion.
FeedbackScores(applicable) ==
    { [i \in 1..Len(applicable) |->
          FeedbackOutcome(applicable[i], f[i][1], f[i][2], f[i][3], f[i][4])] :
        f \in [1..Len(applicable) -> FeedbackValues \X BOOLEAN \X BOOLEAN \X BOOLEAN] }

InitFeedback ==
    /\ RunnerIdle
    /\ CompareIdle
    /\ FactoryIdle
    /\ RetryIdle
    /\ CommandIdle
    /\ fbApplicable \in FeedbackApplicable
    /\ fbScores \in FeedbackScores(fbApplicable)
    /\ fbResult = <<>>

\* buildResult(scores, applicable, contentType), as evaluate and quickCheck end.
BuildResult ==
    /\ fbResult = <<>>
    /\ fbResult' = <<buildResult(fbScores, fbApplicable, "lesson")>>
    /\ UNCHANGED <<fbApplicable, fbScores>>
    /\ UNCHANGED <<runnerVars, selected, compareVars, factoryVars, retryVars, commandVars>>

NextFeedback == BuildResult

SpecFeedback == InitFeedback /\ [][NextFeedback]_vars

\* ------------------------------------------------ feedback (SpecFeedback)
Built == fbResult /= <<>>

ResultScore(i) == fbResult[1].scores[i]

\* The scores that failed or lie below 0.75, by position in Result.scores.
LowScoring == {i \in 1..Len(fbScores) : ~ResultScore(i).passed \/ ResultScore(i).score < 75}

\* The weight of the criterion a score names: its catalog weight, 1 when the
\* catalog has no criterion of that name.
CatalogWeight(i) ==
    LET known == {k \in 1..Len(fbApplicable) : fbApplicable[k].name = ResultScore(i).criterion}
    IN  IF known = {} THEN 1 ELSE fbApplicable[CHOOSE k \in known : TRUE].weight

\* How many low-scoring scores come before score i: the heavier ones, and the
\* equally heavy ones earlier in Result.scores.
Ahead(i) ==
    {j \in LowScoring :
        \/ CatalogWeight(j) > CatalogWeight(i)
        \/ CatalogWeight(j) = CatalogWeight(i) /\ j < i}

SuggestionOrder ==
    [k \in 1..Cardinality(LowScoring) |->
        CHOOSE i \in LowScoring : Cardinality(Ahead(i)) = k - 1]

OwnSuggestions(i) ==
    IF ResultScore(i).suggestions.defined THEN ResultScore(i).suggestions.items ELSE <<>>

\* C17: feedback.suggestions is the suggestion lists of the failed or
\* low-scoring scores one after another, heavier criteria first, equal weights
\* in Result.scores order; a score that passed at 0.75 or above contributes nothing.
C17_SuggestionsByWeight ==
    Built =>
        /\ fbResult[1].scores = fbScores
        /\ fbResult[1].feedback.suggestions =
             Flatten([k \in 1..Cardinality(LowScoring) |-> OwnSuggestions(SuggestionOrder[k])])
        /\ \A i \in 1..Len(fbScores) :
             i \notin LowScoring =>
                \A k \in 1..Len(OwnSuggestions(i)) :
                    OwnSuggestions(i)[k] \notin Range(fbResult[1].feedback.suggestions)

\* C17 witness: three suggestions; the first score names an unknown
\* criterion (weight 1) and stays ahead of the third, of catalog weight 1; the
\* second, of weight 2, comes first.
C17_Witness ==
    /\ Built
    /\ LowScoring = {1, 2, 3}
    /\ ResultScore(1).criterion = UnknownName
    /\ fbApplicable[1].weight = 2
    /\ CatalogWeight(2) = 2
    /\ CatalogWeight(3) = 1
    /\ fbResult[1].feedback.suggestions =
         << <<"fix", "depth">>, <<"fix", "format">>, <<"fix", "tone">> >>

Strong == {i \in 1..Len(fbScores) : ResultScore(i).score >= 75}

\* C18: feedback.strengths is the reasoning of each score at 0.75 or above,
\* in Result.scores order, whatever the score's passed flag: a score that
\* passed below 0.75 is no strength, and a failed score at 0.75 or above is a
\* strength and a failed criterion at once.
C18_StrengthsAtFixedLine ==
    Built =>
        /\ fbResult[1].scores = fbScores
        /\ Len(fbResult[1].feedback.strengths) = Cardinality(Strong)
        /\ \A i \in Strong :
             fbResult[1].feedback.strengths[1 + Cardinality({j \in Strong : j < i})]
                = ResultScore(i).reasoning
        /\ \A i \in 1..Len(fbScores) :
             /\ (ResultScore(i).passed /\ ResultScore(i).score < 75) =>
                    ResultScore(i).reasoning \notin Range(fbResult[1].feedback.strengths)
             /\ (~ResultScore(i).passed /\ ResultScore(i).score >= 75) =>
                    /\ ResultScore(i).reasoning \in Range(fbResult[1].feedback.strengths)
                    /\ \E f \in Range(fbResult[1].feedback.failedCriteria) :
                         /\ f.criterion = ResultScore(i).criterion
                         /\ f.reasoning = ResultScore(i).reasoning

\* C18 witness: the first score passed at 0.5, the second failed at 0.75, the
\* third passed at 0.75: strengths are the second and the third, and the second
\* is the one failed criterion.
C18_Witness ==
    /\ Built
    /\ ResultScore(1).passed /\ ResultScore(1).score = 50
    /\ ~ResultScore(2).passed /\ ResultScore(2).score = 75
    /\ ResultScore(3).passed /\ ResultScore(3).score = 75
    /\ fbResult[1].feedback.strengths = << <<"why", "depth">>, <<"why", "tone">> >>
    /\ Len(fbResult[1].feedback.failedCriteria) = 1
    /\ fbResult[1].feedback.failedCriteria[1].reasoning = <<"why", "depth">>

\* ------------------------------------------------------ selection (Spec)
\* The catalog positions whose criterion declares the wildcard or lists the
\* call's content type, letter for letter.
Matching ==
    {i \in Idx : criteria[i].contentTypes.all \/ contentType \in criteria[i].contentTypes.types}

\* C19: getCriteria returns the matching criteria and no other, in catalog
\* order; an evaluate or quickCheck call never starts a criterion that does not
\* match, and a returned Result holds scores of matching criteria only.
C19_OnlyApplicableCriteria ==
    /\ pc = "listed" =>
         /\ Len(selected) = Cardinality(Matching)
         /\ \A i \in Matching :
              selected[1 + Cardinality({j \in Matching : j < i})] = criteria[i]
    /\ mode \in {"evaluate", "quickCheck"} =>
         /\ \A i \in Idx \ Matching : task[criteria[i].name].status = "idle"
         /\ Returned =>
              \A k \in 1..Len(result[1].scores) :
                 \E i \in Matching : criteria[i].name = result[1].scores[k].criterion

\* C19 witness: getCriteria('Lesson') on a catalog whose first criterion
\* lists 'lesson' and whose second is a wildcard returns the second alone.
C19_Witness ==
    /\ pc = "listed"
    /\ contentType = "Lesson"
    /\ criteria[1].contentTypes = [all |-> FALSE, types |-> {"lesson"}]
    /\ criteria[2].contentTypes = Wildcard
    /\ selected = <<criteria[2]>>

\* ================================================== judge.score, withRetry
\* createJudge's option retries is left out or a whole number of 0..MaxRetries.
MaxRetries == 2

DEFAULT_RETRIES == 3

INITIAL_DELAY_MS == 1000

RETRYABLE_STATUS_CODES == {429, 500, 502, 503, 529}

\* What client.messages.create can reject with: an Anthropic.APIError with a
\* status, an Error carrying a code (ECONNRESET, ETIMEDOUT, ...), or any other value.
APIError(status) == [kind |-> "api", status |-> status]

NetworkError == [kind |-> "network", status |-> 0]

OtherError == [kind |-> "other", status |-> 0]

Failures ==
    {APIError(st) : st \in RETRYABLE_STATUS_CODES \cup {400, 401}} \cup {NetworkError, OtherError}

\* A create call that has not settled yet, and one that resolved.
InFlightCall == [kind |-> "pending", status |-> 0]

Response == [kind |-> "response", status |-> 200]

\* opts.retries ?? DEFAULT_RETRIES
RetriesOrDefault(opt) == IF opt.given THEN opt.value ELSE DEFAULT_RETRIES

\* Mutant of isRetryable: every failure is retried.
isRetryable_Always(err) == TRUE

isRetryable(err) ==
    IF err.kind = "api" THEN err.status \in RETRYABLE_STATUS_CODES
    ELSE IF err.kind = "network" THEN TRUE
    ELSE FALSE

\* The last create call settles with outcome.
Settle(calls, outcome) == [calls EXCEPT ![Len(calls)] = outcome]

InitRetry ==
    /\ RunnerIdle
    /\ CompareIdle
    /\ FactoryIdle
    /\ FeedbackIdle
    /\ CommandIdle
    /\ maxRetries \in {RetriesOrDefault(opt) : opt \in {NoNumber} \cup {Given(n) : n \in 0..MaxRetries}}
    /\ attempt = 0
    /\ lastError = NoFailure
    /\ delay = 0
    /\ createCalls = <<>>
    /\ scorePc = "idle"

\* judge.score(...) up to its await: withRetry enters the loop and calls fn().
CallScore ==
    /\ scorePc = "idle"
    /\ scorePc' = "calling"
    /\ attempt' = 0
    /\ createCalls' = <<InFlightCall>>
    /\ UNCHANGED <<maxRetries, lastError, delay>>
    /\ UNCHANGED <<runnerVars, selected, compareVars, factoryVars, feedbackVars, commandVars>>

\* fn() resolves: withRetry returns the response, and score parses its text,
\* returning the score or throwing on a text that is not the expected JSON.
AttemptSucceeds(valid) ==
    /\ scorePc = "calling"
    /\ createCalls' = Settle(createCalls, Response)
    /\ scorePc' = IF valid THEN "returned" ELSE "invalid"
    /\ UNCHANGED <<maxRetries, attempt, lastError, delay>>
    /\ UNCHANGED <<runnerVars, selected, compareVars, factoryVars, feedbackVars, commandVars>>

\* fn() rejects with err: rethrown on the last attempt or when not retryable,
\* else the loop sleeps baseDelay * 2 ** attempt.
AttemptFails(err) ==
    /\ scorePc = "calling"
    /\ createCalls' = Settle(createCalls, err)
    /\ lastError' = err
    /\ IF attempt = maxRetries \/ ~isRetryable(err)
       THEN scorePc' = "threw" /\ UNCHANGED delay
       ELSE scorePc' = "sleeping" /\ delay' = INITIAL_DELAY_MS * 2 ^ attempt
    /\ UNCHANGED <<maxRetries, attempt>>
    /\ UNCHANGED <<runnerVars, selected, compareVars, factoryVars, feedbackVars, commandVars>>

\* The timer fires: attempt++ and fn() is called again.  The loop test
\* attempt <= maxRetries holds here, the sleep being reached only below maxRetries.
Wake ==
    /\ scorePc = "sleeping"
    /\ attempt + 1 <= maxRetries
    /\ attempt' = attempt + 1
    /\ createCalls' = Append(createCalls, InFlightCall)
    /\ scorePc' = "calling"
    /\ UNCHANGED <<maxRetries, lastError, delay>>
    /\ UNCHANGED <<runnerVars, selected, compareVars, factoryVars, feedbackVars, commandVars>>

NextRetry ==
    \/ CallScore
    \/ \E valid \in BOOLEAN : AttemptSucceeds(valid)
    \/ \E err \in Failures : AttemptFails(err)
    \/ Wake

SpecRetry == InitRetry /\ [][NextRetry]_vars

\* ------------------------------------------------- retries (SpecRetry)
Attempts == Len(createCalls)

\* The failures the documentation calls transient.
Transient(outcome) ==
    \/ outcome.kind = "api" /\ outcome.status \in {429, 500, 502, 503, 529}
    \/ outcome.kind = "network"

Failed(outcome) == outcome.kind \in {"api", "network", "other"}

ScoreOver == scorePc \in {"returned", "invalid", "threw"}

\* C20: the attempts of one judge.score call come one after another and
\* number at most retries + 1; a successful attempt is the last; a failure that
\* is not transient is the last and is thrown at once (one attempt when it is
\* the first); a call whose attempts all failed transiently made exactly
\* retries + 1 of them before throwing the last error; retries = 0 means one attempt.
C20_BoundedSequentialAttempts ==
    /\ Attempts <= maxRetries + 1
    /\ \A k \in 1..Attempts :
         /\ createCalls[k] = InFlightCall => (k = Attempts /\ scorePc = "calling")
         /\ createCalls[k] = Response =>
              (k = Attempts /\ scorePc \in {"returned", "invalid"})
         /\ (Failed(createCalls[k]) /\ ~Transient(createCalls[k])) =>
              (k = Attempts /\ scorePc = "threw" /\ lastError = createCalls[k])
    /\ scorePc = "calling" => (Attempts >= 1 /\ createCalls[Attempts] = InFlightCall)
    /\ scorePc \in {"returned", "invalid"} => createCalls[Attempts] = Response
    /\ scorePc = "threw" =>
         /\ Failed(createCalls[Attempts])
         /\ lastError = createCalls[Attempts]
         /\ Transient(createCalls[Attempts]) => Attempts = maxRetries + 1
    /\ (maxRetries = 0 /\ scorePc /= "idle") => Attempts = 1

\* C20 witness: retries = 2, three attempts failed with 429, 529 and a
\* network error, and the network error is thrown.
C20_Witness ==
    /\ maxRetries = 2
    /\ scorePc = "threw"
    /\ createCalls = <<APIError(429), APIError(529), NetworkError>>
    /\ lastError = NetworkError
    /\ delay = 2000

\* ------------------------------------------------- order of scores (Spec)
\* The matching catalog positions of either method.
MatchingOf(method) == {i \in Matching : criteria[i].method = method}

\* How many positions of set lie before i.
Before(set, i) == Cardinality({j \in set : j < i})

\* C22: the Result of evaluate holds one score per applicable criterion, the
\* one its evaluate resolved with: the deterministic criteria first, the judged
\* ones after them, each group in catalog order, in whatever order they settled.
C22_ScoresDeterministicThenJudged ==
    (Returned /\ mode = "evaluate") =>
        /\ Len(result[1].scores) = Cardinality(Matching)
        /\ \A i \in MatchingOf("deterministic") :
             result[1].scores[1 + Before(MatchingOf("deterministic"), i)]
                = task[criteria[i].name].out
        /\ \A i \in MatchingOf("llm_judge") :
             result[1].scores[Cardinality(MatchingOf("deterministic"))
                              + 1 + Before(MatchingOf("llm_judge"), i)]
                = task[criteria[i].name].out
        /\ \A i \in Matching : task[criteria[i].name].out.criterion = criteria[i].name

\* C22 witness: two judged criteria, the second of the catalog settled first
\* and failed with suggestions, the first has the lower weight: the scores are
\* in catalog order all the same.
C22_Witness ==
    /\ Returned
    /\ mode = "evaluate"
    /\ criteria[1].method = "llm_judge" /\ criteria[2].method = "llm_judge"
    /\ criteria[1].weight < criteria[2].weight
    /\ settled = <<criteria[2].name, criteria[1].name>>
    /\ CriterionNamesOf(result[1].scores) = <<criteria[1].name, criteria[2].name>>
    /\ Len(result[1].feedback.suggestions) = 2
    /\ result[1].feedback.suggestions[1] = <<"fix", criteria[2].name>>

\* ------------------------------------------- judged after deterministic (Spec)
JudgedInvoked == {i \in MatchingOf("llm_judge") : invoked[criteria[i].name] > 0}

\* C23: in evaluate a judged criterion is invoked, and the Judge called, only
\* when every applicable deterministic criterion has resolved; after a
\* deterministic criterion rejected, and when the Judge is missing, no judged
\* criterion is invoked at all, the latter call failing with the judge-required error.
C23_JudgedOnlyAfterDeterministic ==
    mode = "evaluate" =>
        /\ (JudgedInvoked /= {} \/ judgeCalls > 0) =>
             \A j \in MatchingOf("deterministic") :
                task[criteria[j].name].status = "resolved"
        /\ (\E j \in MatchingOf("deterministic") : task[criteria[j].name].status = "rejected")
             => (JudgedInvoked = {} /\ judgeCalls = 0)
        /\ ~judge => (JudgedInvoked = {} /\ judgeCalls = 0)
        /\ (\E c \in Range(criteria) : error = JudgeRequired(c)) =>
             (~judge /\ JudgedInvoked = {} /\ pc = "failed")
        /\ \A i \in Idx : criteria[i].method = "llm_judge" =>
             (task[criteria[i].name].status /= "idle" <=> i \in JudgedInvoked)

\* C23 witness: a Runner with a Judge, the deterministic criterion rejected,
\* the call failed, and the applicable judged criterion was never invoked.
C23_Witness ==
    /\ mode = "evaluate"
    /\ judge
    /\ pc = "failed"
    /\ \E j \in MatchingOf("deterministic") : task[criteria[j].name].status = "rejected"
    /\ \E i \in MatchingOf("llm_judge") :
         invoked[criteria[i].name] = 0 /\ task[criteria[i].name].status = "idle"

\* ------------------------------------------------ criterion failures (Spec)
\* The criteria whose evaluate rejected, in the order they did.
Rejections == SelectSeq(settled, LAMBDA n : task[n].status = "rejected")

\* C24: in one call the evaluate of a criterion is invoked at most once, and
\* exactly once for each criterion the call runs when it returns; a rejected
\* evaluate fails the call with the error of the first rejection and without a Result.
C24_FailuresPropagateOnce ==
    /\ \A n \in Names : invoked[n] <= 1
    /\ Returned =>
         \A i \in Idx : invoked[criteria[i].name] = IF RunsInCall(criteria[i]) THEN 1 ELSE 0
    /\ Rejections /= <<>> =>
         /\ pc = "failed"
         /\ result = <<>>
         /\ error = CriterionError(CriterionNamed(Rejections[1]))

\* C24 witness: two criteria were invoked once each and both rejected; the
\* call failed with the error of the one that rejected first, the second of the catalog.
C24_Witness ==
    /\ mode = "evaluate"
    /\ pc = "failed"
    /\ result = <<>>
    /\ Rejections = <<criteria[2].name, criteria[1].name>>
    /\ error = CriterionError(criteria[2])
    /\ \A n \in Names : invoked[n] = 1

\* ------------------------------------------- criteriaDeltas (SpecCompare)
\* The criteria the current result of prompt i scores.
Scored(i) == {s.criterion : s \in Range(Current(i).scores)}

\* The criteria prompt i's baseline entry records.
RecordedNames(i) == {s.criterion : s \in Range(EntryOf(i).scores)}

\* The current score of a criterion in prompt i, 0 when it is not scored.
CurrentOf(i, criterion) ==
    IF criterion \in Scored(i)
    THEN (CHOOSE s \in Range(Current(i).scores) : s.criterion = criterion).score
    ELSE 0

\* C25: for a prompt with a baseline entry criteriaDeltas holds one entry for
\* each criterion the entry records or the current result scores and no other,
\* with current and baseline 0 where the side has no score and delta their
\* difference; for a prompt without an entry it is empty.
C25_CriteriaDeltasOverUnion ==
    Compared =>
        /\ PromptsAligned
        /\ \A i \in 1..Len(cmpCurrent) :
             LET deltas == Prompt(i).criteriaDeltas
             IN  IF HasEntry(i)
                 THEN /\ {deltas[k].criterion : k \in 1..Len(deltas)}
                            = RecordedNames(i) \cup Scored(i)
                      /\ Len(deltas) = Cardinality(RecordedNames(i) \cup Scored(i))
                      /\ \A k \in 1..Len(deltas) :
                           /\ deltas[k].current = CurrentOf(i, deltas[k].criterion)
                           /\ deltas[k].baseline = Recorded(i, deltas[k].criterion)
                           /\ deltas[k].delta = deltas[k].current - deltas[k].baseline
                 ELSE deltas = <<>>

\* C25 witness: the entry records one criterion, the current result scores
\* the other: two deltas, one with current 0 and one with baseline 0.
C25_Witness ==
    /\ Compared
    /\ Len(cmpCurrent) = 1
    /\ HasEntry(1)
    /\ RecordedNames(1) = {"format"}
    /\ Scored(1) = {"depth"}
    /\ Len(Prompt(1).criteriaDeltas) = 2
    /\ \E d \in Range(Prompt(1).criteriaDeltas) :
         d.criterion = "format" /\ d.current = 0 /\ d.delta = -d.baseline /\ d.baseline > 0
    /\ \E d \in Range(Prompt(1).criteriaDeltas) :
         d.criterion = "depth" /\ d.baseline = 0 /\ d.delta = d.current /\ d.current > 0

\* ------------------------------------ baseline-only entries (SpecCompare)
\* The baseline entries whose name has no current result.
Orphans ==
    {k \in 1..Len(cmpBaseline.entries) :
        \A i \in 1..Len(cmpCurrent) : cmpCurrent[i].name /= cmpBaseline.entries[k].name}

\* The baseline without those entries.
WithoutOrphans ==
    [cmpBaseline EXCEPT !.entries =
        SelectSeq(cmpBaseline.entries,
                  LAMBDA e : \E i \in 1..Len(cmpCurrent) : cmpCurrent[i].name = e.name)]

\* C30: a baseline entry without a current result changes nothing: the
\* comparison has one PromptComparison per current result, its counters add up
\* to their number, and the whole CompareResult is the one the baseline without
\* such entries gives; the call leaves its arguments as they were.
C30_OrphanEntriesIgnored ==
    /\ [](Compared =>
            /\ PromptsAligned
            /\ Summary.total = Len(cmpCurrent)
            /\ Summary.new + Summary.regressed + Summary.improved + Summary.unchanged
                 = Len(cmpCurrent)
            /\ comparison[1] = compareResults(cmpCurrent, WithoutOrphans, cmpThreshold)
            /\ (\A i \in 1..Len(cmpCurrent) : ~Prompt(i).regressed) => comparison[1].passed)
    /\ [][cmpCurrent' = cmpCurrent /\ cmpBaseline' = cmpBaseline]_vars

\* C30 witness: one current result that did not regress and a baseline that
\* also holds an entry of another name: passed, total 1.
C30_Witness ==
    /\ Compared
    /\ Len(cmpCurrent) = 1
    /\ HasEntry(1)
    /\ Orphans /= {}
    /\ comparison[1].passed
    /\ Summary.total = 1
    /\ Len(comparison[1].prompts) = 1

\* ====================================== createBaseline, then compareResults
\* Score lists of up to two scores over the criterion names, a name twice included.
RoundTripScoreLists ==
    LET one == {CriterionScore(c, v) : c \in Range(CriterionNames), v \in CompareValues}
    IN  {<<>>} \cup {<<a>> : a \in one} \cup {<<a, b>> : a \in one, b \in one}

RoundTripResults ==
    { [overallScore |-> o, scores |-> sl, contentType |-> "lesson", evaluatedAt |-> "now"] :
        o \in CompareValues, sl \in RoundTripScoreLists }

\* Maps name -> EvalResult over the prompt names, in insertion order.
RECURSIVE RoundTripMaps(_)
RoundTripMaps(names) ==
    IF names = <<>> THEN {<<>>}
    ELSE LET rest == RoundTripMaps(Tail(names))
         IN  rest \cup { <<[name |-> Head(names), result |-> r]>> \o m :
                           r \in RoundTripResults, m \in rest }

\* Thresholds of the round trip: those of the comparator and a negative one.
RoundTripThresholds == Thresholds \cup {-5}

\* scores[s.criterion] = s.score for each score in turn: a key stands where it
\* was first written and holds what was written last.
RecordOf(scores) ==
    LET keys == Dedup(CriterionNamesOf(scores), {})
    IN  [k \in 1..Len(keys) |->
            LET hits == {i \in 1..Len(scores) : scores[i].criterion = keys[k]}
            IN  CriterionScore(keys[k], scores[CHOOSE i \in hits : \A j \in hits : j <= i].score)]

\* Mutant of toBaselineEntry: the per-criterion scores are left out.
toBaselineEntry_WithoutScores(name, res) ==
    [name |-> name, contentType |-> res.contentType, overallScore |-> res.overallScore,
     scores |-> <<>>, evaluatedAt |-> res.evaluatedAt]

toBaselineEntry(name, res) ==
    [name |-> name, contentType |-> res.contentType, overallScore |-> res.overallScore,
     scores |-> RecordOf(res.scores), evaluatedAt |-> res.evaluatedAt]

\* createBaseline(entries, mode); generatedAt is the time of the call.
createBaseline(entries, m) == BaselineFile(entries, m)

\* The baseline file made from a map of results.
BaselineOf(current, m) ==
    createBaseline([i \in 1..Len(current) |-> toBaselineEntry(current[i].name, current[i].result)], m)

InitRoundTrip ==
    /\ RunnerIdle
    /\ FactoryIdle
    /\ FeedbackIdle
    /\ RetryIdle
    /\ CommandIdle
    /\ cmpCurrent \in RoundTripMaps(PromptNames)
    /\ cmpBaseline \in {BaselineOf(cmpCurrent, m) : m \in {"full", "quick"}}
    /\ cmpThreshold \in RoundTripThresholds
    /\ comparison = <<>>

SpecRoundTrip == InitRoundTrip /\ [][NextCompare]_vars

\* ------------------------------------------- round trip (SpecRoundTrip)
\* Every current result names each criterion at most once.
DistinctCriteria ==
    \A i \in 1..Len(cmpCurrent) :
        \A a, b \in 1..Len(Current(i).scores) :
            Current(i).scores[a].criterion = Current(i).scores[b].criterion => a = b

\* C29: results with distinct criterion names, compared with the baseline
\* made from them under a threshold of 0 or more, are all unchanged: delta 0,
\* every criterion delta 0, nothing regressed, improved or new, passed; and each
\* baseline entry keeps name, contentType, overallScore and evaluatedAt of its
\* result and records each criterion with its score.
C29_RoundTripUnchanged ==
    (DistinctCriteria /\ cmpThreshold >= 0) =>
        /\ Len(cmpBaseline.entries) = Len(cmpCurrent)
        /\ \A i \in 1..Len(cmpCurrent) :
             LET e == cmpBaseline.entries[i]
                 r == Current(i)
             IN  /\ e.name = cmpCurrent[i].name
                 /\ e.contentType = r.contentType
                 /\ e.overallScore = r.overallScore
                 /\ e.evaluatedAt = r.evaluatedAt
                 /\ Len(e.scores) = Len(r.scores)
                 /\ \A k \in 1..Len(r.scores) : r.scores[k] \in Range(e.scores)
        /\ Compared =>
             /\ PromptsAligned
             /\ comparison[1].passed
             /\ Summary.total = Len(cmpCurrent)
             /\ Summary.unchanged = Len(cmpCurrent)
             /\ Summary.regressed = 0 /\ Summary.improved = 0 /\ Summary.new = 0
             /\ Summary.criterionRegressions = 0
             /\ \A i \in 1..Len(cmpCurrent) :
                  /\ ~Prompt(i).newPrompt /\ ~Prompt(i).regressed
                  /\ Prompt(i).delta = 0
                  /\ Prompt(i).baselineScore = Number(Current(i).overallScore)
                  /\ Len(Prompt(i).criteriaDeltas) = Len(Current(i).scores)
                  /\ \A d \in Range(Prompt(i).criteriaDeltas) :
                       d.delta = 0 /\ d.current = d.baseline

\* C29 witness: two prompts with two criteria each, threshold 0, compared
\* with their own baseline: both unchanged.
C29_Witness ==
    /\ Compared
    /\ cmpThreshold = 0
    /\ Len(cmpCurrent) = 2
    /\ DistinctCriteria
    /\ \A i \in 1..2 : Len(Current(i).scores) = 2 /\ Len(Prompt(i).criteriaDeltas) = 2
    /\ Summary.unchanged = 2
    /\ comparison[1].passed

\* ------------------------------------------- failed criteria (Spec)
\* The positions of Result.scores whose score failed.
FailedScores == {i \in 1..Len(result[1].scores) : ~result[1].scores[i].passed}

AllScoresPassed == FailedScores = {}

\* C26 as stated: with every score passed, failedCriteria and suggestions are
\* both empty; and every failed score has an entry in failedCriteria.
C26_AllPassedMeansNoSuggestions ==
    Returned =>
        /\ AllScoresPassed =>
             /\ result[1].feedback.failedCriteria = <<>>
             /\ result[1].feedback.suggestions = <<>>
        /\ \A i \in FailedScores :
             \E k \in 1..Len(result[1].feedback.failedCriteria) :
                result[1].feedback.failedCriteria[k].criterion = result[1].scores[i].criterion

\* C26: failedCriteria is the failed scores, optional criteria included, in
\* Result.scores order, each with its criterion, reasoning and its suggestions
\* or the empty list; so it is empty when every score passed. suggestions is
\* empty when every score passed at 0.75 or above; a score that passed below
\* 0.75 still contributes its suggestions.
C26_FailedCriteriaAreFailedScores ==
    Returned =>
        LET fc == result[1].feedback.failedCriteria
            low == {i \in 1..Len(result[1].scores) :
                      result[1].scores[i].passed /\ result[1].scores[i].score < StrengthLine}
        IN  /\ Len(fc) = Cardinality(FailedScores)
            /\ \A i \in FailedScores :
                 fc[1 + Before(FailedScores, i)] =
                    [criterion |-> result[1].scores[i].criterion,
                     reasoning |-> result[1].scores[i].reasoning,
                     suggestions |-> IF result[1].scores[i].suggestions.defined
                                     THEN result[1].scores[i].suggestions.items ELSE <<>>]
            /\ AllScoresPassed => fc = <<>>
            /\ (AllScoresPassed /\ low = {}) => result[1].feedback.suggestions = <<>>
            /\ AllScoresPassed =>
                 Len(result[1].feedback.suggestions) =
                    Cardinality({i \in low : result[1].scores[i].suggestions.defined})

\* C26 witness: an optional criterion failed without suggestions and the
\* other passed at 0.5 with one: the Result passed, failedCriteria holds the
\* optional criterion with an empty list, suggestions holds the other's.
C26_Witness ==
    /\ Returned
    /\ Len(result[1].scores) = 2
    /\ criteria[1].optional
    /\ result[1].scores[1].criterion = criteria[1].name
    /\ ~result[1].scores[1].passed /\ ~result[1].scores[1].suggestions.defined
    /\ result[1].scores[2].passed /\ result[1].scores[2].score = 50
    /\ result[1].passed
    /\ Len(result[1].feedback.failedCriteria) = 1
    /\ result[1].feedback.failedCriteria[1].suggestions = <<>>
    /\ result[1].feedback.suggestions = << <<"fix", criteria[2].name>> >>

\* ============================================================== runCompare
CliFormats == {"text", "json", "markdown"}

\* The parsed command line as runCompare reads it.  apiKey is whether the key
\* is non-empty; resultFile is unset or the state of the path it names.
CliArgs ==
    [quick : BOOLEAN, apiKey : BOOLEAN, format : CliFormats,
     resultFile : {"unset", "writable", "unwritable"}, threshold : Thresholds]

\* The EvalResults of the command line runs: one criterion, scored.
CliResults ==
    { [overallScore |-> o, scores |-> <<CriterionScore(CriterionNames[1], v)>>,
       contentType |-> "lesson", evaluatedAt |-> "now"] :
        o \in CompareValues, v \in CompareValues }

\* The Maps evaluatePrompts can resolve with: one result per prompt, in order.
RECURSIVE CliResultMaps(_)
CliResultMaps(names) ==
    IF names = <<>> THEN {<<>>}
    ELSE { <<[name |-> Head(names), result |-> r]>> \o m :
             r \in CliResults, m \in CliResultMaps(Tail(names)) }

\* The baseline files on disk: entries for some of the prompts.
RECURSIVE CliEntryLists(_)
CliEntryLists(names) ==
    IF names = <<>> THEN {<<>>}
    ELSE LET rest == CliEntryLists(Tail(names))
         IN  rest \cup { <<toBaselineEntry(Head(names), r)>> \o m : r \in CliResults, m \in rest }

\* What args.baseline names: nothing, a file that is not JSON, or a baseline file.
BaselinesOnDisk ==
    {[kind |-> "missing", content |-> <<>>], [kind |-> "garbage", content |-> <<>>]}
        \cup { [kind |-> "file", content |-> <<createBaseline(es, "full")>>] :
                 es \in CliEntryLists(PromptNames) }

\* config.prompts: the first so many of the prompt names.
PromptConfigs == {SubSeq(PromptNames, 1, n) : n \in 0..Len(PromptNames)}

ExitCall(by) == [code |-> 1, by |-> by]

\* Mutant of ExitAfterCompare: runCompare returns whatever the comparison says.
ExitAfterCompare_Never(cmp) == FALSE

\* if (!comparison.passed) process.exit(1)
ExitAfterCompare(cmp) == ~cmp.passed

\* createRunner: process.exit(1) when a judge is wanted and there is no API key.
ApiKeyMissing(a) == ~a.quick /\ ~a.apiKey

InitCli ==
    /\ RunnerIdle
    /\ CompareIdle
    /\ FactoryIdle
    /\ FeedbackIdle
    /\ RetryIdle
    /\ BatchIdle
    /\ concurrentCalls = <<>>
    /\ args \in CliArgs
    /\ summaryPath \in {"unset", "writable"}
    /\ baselineOnDisk \in BaselinesOnDisk
    /\ configPrompts \in PromptConfigs
    /\ comparePc = "idle"
    /\ cliComparison = <<>>
    /\ exitCalls = <<>>
    /\ stdout = <<>>
    /\ filesWritten = {}

outsideCli ==
    <<runnerVars, compareVars, selected, factoryVars, feedbackVars, retryVars,
      batchVars, concurrentCalls>>

\* runCompare(args, config) up to its await: the baseline is looked for, read
\* and parsed, the runner is created and evaluatePrompts called.
RunCompare ==
    /\ comparePc = "idle"
    /\ IF baselineOnDisk.kind = "missing"
       THEN /\ comparePc' = "exited"
            /\ exitCalls' = Append(exitCalls, ExitCall("runCompare"))
       ELSE IF baselineOnDisk.kind = "garbage"
       THEN /\ comparePc' = "rejected"
            /\ UNCHANGED exitCalls
       ELSE IF ApiKeyMissing(args)
       THEN /\ comparePc' = "exited"
            /\ exitCalls' = Append(exitCalls, ExitCall("createRunner"))
       ELSE /\ comparePc' = "evaluating"
            /\ UNCHANGED exitCalls
    /\ UNCHANGED <<args, summaryPath, baselineOnDisk, configPrompts, cliComparison,
                   stdout, filesWritten>>
    /\ UNCHANGED outsideCli

\* evaluatePrompts resolved with results: the rest of runCompare.
EvaluatePromptsResolves(results) ==
    /\ comparePc = "evaluating"
    /\ LET cmp == compareResults(results, baselineOnDisk.content[1], args.threshold)
       IN  /\ cliComparison' = <<cmp>>
           /\ stdout' = Append(stdout, args.format)
           /\ IF args.resultFile = "unwritable"
              THEN /\ comparePc' = "rejected"
                   /\ UNCHANGED <<filesWritten, exitCalls>>
              ELSE /\ filesWritten' =
                        {f \in {"resultFile"} : args.resultFile = "writable"}
                            \cup {f \in {"summary"} : summaryPath = "writable"}
                   /\ IF ExitAfterCompare(cmp)
                      THEN /\ comparePc' = "exited"
                           /\ exitCalls' = Append(exitCalls, ExitCall("runCompare"))
                      ELSE /\ comparePc' = "returned"
                           /\ UNCHANGED exitCalls
    /\ UNCHANGED <<args, summaryPath, baselineOnDisk, configPrompts>>
    /\ UNCHANGED outsideCli

\* evaluatePrompts rejected: so does runCompare.
EvaluatePromptsRejects ==
    /\ comparePc = "evaluating"
    /\ comparePc' = "rejected"
    /\ UNCHANGED <<args, summaryPath, baselineOnDisk, configPrompts, cliComparison,
                   exitCalls, stdout, filesWritten>>
    /\ UNCHANGED outsideCli

\* main().catch: a rejected command ends the process with code 1.
MainCatch ==
    /\ comparePc = "rejected"
    /\ comparePc' = "exited"
    /\ exitCalls' = Append(exitCalls, ExitCall("main"))
    /\ UNCHANGED <<args, summaryPath, baselineOnDisk, configPrompts, cliComparison,
                   stdout, filesWritten>>
    /\ UNCHANGED outsideCli

NextCli ==
    \/ RunCompare
    \/ \E results \in CliResultMaps(configPrompts) : EvaluatePromptsResolves(results)
    \/ EvaluatePromptsRejects
    \/ MainCatch

SpecCli == InitCli /\ [][NextCli]_vars

\* ---------------------------------------------------- runCompare (SpecCli)
CliCompared == cliComparison /= <<>>

CliOver == comparePc \in {"returned", "exited"}

\* The comparison, when made, found no regressed prompt.
NoPromptRegressed == CliCompared => cliComparison[1].summary.regressed = 0

\* C21 as stated: the process ends with code 1 when a prompt regressed, and
\* with the baseline file there and no prompt regressed runCompare finishes
\* without a process.exit call.
C21_ReturnsUnlessRegressed ==
    /\ (CliCompared /\ ~cliComparison[1].passed /\ CliOver) =>
          comparePc = "exited" /\ exitCalls = <<ExitCall("runCompare")>>
    /\ (CliOver /\ baselineOnDisk.kind /= "missing" /\ NoPromptRegressed) =>
          comparePc = "returned" /\ exitCalls = <<>>

\* C21: the process ends with code 1 when the comparison has a regressed
\* prompt; runCompare returns without a process.exit call exactly when the
\* baseline file is there and parses, the runner could be created (quick mode
\* or an API key), the evaluation and the writes succeeded and no prompt
\* regressed. Every other run ends with exit code 1 as well.
C21_ExitOneOnRegression ==
    /\ CliCompared =>
          (cliComparison[1].passed <=> cliComparison[1].summary.regressed = 0)
    /\ (CliCompared /\ ~cliComparison[1].passed /\ CliOver) =>
          /\ comparePc = "exited"
          /\ Len(exitCalls) = 1
          /\ exitCalls[1].code = 1
    /\ CliOver =>
          (comparePc = "returned" <=>
              /\ baselineOnDisk.kind = "file"
              /\ ~ApiKeyMissing(args)
              /\ CliCompared
              /\ args.resultFile /= "unwritable"
              /\ cliComparison[1].summary.regressed = 0)
    /\ comparePc = "returned" => exitCalls = <<>>
    /\ comparePc = "exited" => Len(exitCalls) = 1 /\ exitCalls[1].code = 1
    /\ (ApiKeyMissing(args) /\ baselineOnDisk.kind = "file" /\ CliOver) =>
          exitCalls = <<ExitCall("createRunner")>> /\ ~CliCompared

\* C21 witness: two prompts compared, one regressed: printed, written to the
\* result file, and the process ended by runCompare with code 1.
C21_Witness ==
    /\ comparePc = "exited"
    /\ CliCompared
    /\ Len(cliComparison[1].prompts) = 2
    /\ cliComparison[1].summary.regressed = 1
    /\ ~cliComparison[1].passed
    /\ stdout = <<args.format>>
    /\ "resultFile" \in filesWritten
    /\ exitCalls = <<ExitCall("runCompare")>>

\* ========================================================= evaluatePrompts
\* The argument concurrency is left out or one of 1..MaxConcurrency.
MaxConcurrency == 2

\* concurrency = 5 when the caller leaves it out.
DEFAULT_CONCURRENCY == 5

\* The prompt names of a config, in order; names need not be distinct
\* (loadConfig checks each name to be a string, nothing more).
BatchNames == <<"intro", "advanced", "bonus", "intro">>

BatchPromptLists == {SubSeq(BatchNames, 1, n) : n \in 0..Len(BatchNames)}

ConcurrencyOrDefault == IF concurrency.given THEN concurrency.value ELSE DEFAULT_CONCURRENCY

\* The EvalResult the runner resolves with for the prompt at position p.
EvalResultOf(p) == <<"result", p>>

\* Mutant of BatchOf: all remaining prompts go into one batch.
BatchOf_Rest(start, c, n) == (start + 1)..n

\* prompts.slice(i, i + concurrency), as positions 1..n.
BatchOf(start, c, n) == (start + 1)..(IF start + c < n THEN start + c ELSE n)

\* results.set(name, r): a known key keeps its place and takes the new value.
MapSet(m, name, r) ==
    IF \E k \in 1..Len(m) : m[k].name = name
    THEN [k \in 1..Len(m) |-> IF m[k].name = name THEN [name |-> name, result |-> r] ELSE m[k]]
    ELSE Append(m, [name |-> name, result |-> r])

RECURSIVE SetAll(_, _, _)
\* for (const [name, result] of batchResults) results.set(name, result),
\* batchResults being in the order of the batch.
SetAll(m, from, to) ==
    IF from > to THEN m
    ELSE SetAll(MapSet(m, batchPrompts[from], EvalResultOf(from)), from + 1, to)

\* batch.map(async (prompt) => ...): each callback runs up to its await, its
\* runner call made.
Start(evs, batch) ==
    [p \in 1..Len(evs) |->
        IF p \in batch
        THEN [status |-> "running", method |-> IF batchQuick THEN "quickCheck" ELSE "evaluate"]
        ELSE evs[p]]

InitBatch ==
    /\ RunnerIdle
    /\ CompareIdle
    /\ FactoryIdle
    /\ FeedbackIdle
    /\ RetryIdle
    /\ CliIdle
    /\ concurrentCalls = <<>>
    /\ batchPrompts \in BatchPromptLists
    /\ batchQuick \in BOOLEAN
    /\ concurrency \in {NoNumber} \cup {Given(c) : c \in 1..MaxConcurrency}
    /\ batchPc = "idle"
    /\ batchStart = 0
    /\ evaluations = [p \in 1..Len(batchPrompts) |-> [status |-> "waiting", method |-> "none"]]
    /\ resultsMap = <<>>
    /\ returnedMap = <<>>
    /\ completed = 0
    /\ completionOrder = <<>>

outsideBatch ==
    <<runnerVars, compareVars, selected, factoryVars, feedbackVars, retryVars,
      cliVars, concurrentCalls>>

\* evaluatePrompts(runner, prompts, quick, concurrency) up to its first await,
\* or to its return when there is no prompt.
CallEvaluatePrompts ==
    /\ batchPc = "idle"
    /\ batchStart' = 0
    /\ IF Len(batchPrompts) = 0
       THEN /\ batchPc' = "returned"
            /\ returnedMap' = <<resultsMap>>
            /\ UNCHANGED evaluations
       ELSE /\ batchPc' = "awaiting"
            /\ evaluations' =
                 Start(evaluations, BatchOf(0, ConcurrencyOrDefault, Len(batchPrompts)))
            /\ UNCHANGED returnedMap
    /\ UNCHANGED <<batchPrompts, batchQuick, concurrency, resultsMap, completed, completionOrder>>
    /\ UNCHANGED outsideBatch

\* The runner call of the prompt at p resolves: completed++ and the progress line.
EvaluationResolves(p) ==
    /\ evaluations[p].status = "running"
    /\ evaluations' = [evaluations EXCEPT ![p].status = "resolved"]
    /\ completed' = completed + 1
    /\ completionOrder' = Append(completionOrder, p)
    /\ UNCHANGED <<batchPrompts, batchQuick, concurrency, batchPc, batchStart,
                   resultsMap, returnedMap>>
    /\ UNCHANGED outsideBatch

\* The runner call of the prompt at p rejects.  Promise.all rejects with the
\* first rejection and with it the call; the other callbacks stay in flight.
EvaluationRejects(p) ==
    /\ evaluations[p].status = "running"
    /\ evaluations' = [evaluations EXCEPT ![p].status = "rejected"]
    /\ completionOrder' = Append(completionOrder, p)
    /\ batchPc' = IF batchPc = "awaiting" THEN "rejected" ELSE batchPc
    /\ UNCHANGED <<batchPrompts, batchQuick, concurrency, batchStart,
                   resultsMap, returnedMap, completed>>
    /\ UNCHANGED outsideBatch

\* After the await: the batch's results are put into the Map, and the next
\* batch is started or the Map returned.
BatchJoin ==
    /\ batchPc = "awaiting"
    /\ LET n == Len(batchPrompts)
           batch == BatchOf(batchStart, ConcurrencyOrDefault, n)
           next == batchStart + ConcurrencyOrDefault
           filled == SetAll(resultsMap, batchStart + 1,
                            IF next < n THEN next ELSE n)
       IN  /\ \A p \in batch : evaluations[p].status = "resolved"
           /\ resultsMap' = filled
           /\ batchStart' = next
           /\ IF next < n
              THEN /\ evaluations' = Start(evaluations, BatchOf(next, ConcurrencyOrDefault, n))
                   /\ UNCHANGED <<batchPc, returnedMap>>
              ELSE /\ batchPc' = "returned"
                   /\ returnedMap' = <<filled>>
                   /\ UNCHANGED evaluations
    /\ UNCHANGED <<batchPrompts, batchQuick, concurrency, completed, completionOrder>>
    /\ UNCHANGED outsideBatch

NextBatch ==
    \/ CallEvaluatePrompts
    \/ \E p \in 1..Len(BatchNames) : p <= Len(batchPrompts) /\ EvaluationResolves(p)
    \/ \E p \in 1..Len(BatchNames) : p <= Len(batchPrompts) /\ EvaluationRejects(p)
    \/ BatchJoin

SpecBatch == InitBatch /\ [][NextBatch]_vars

\* ------------------------------------------- evaluatePrompts (SpecBatch)
InFlightPrompts == {p \in 1..Len(batchPrompts) : evaluations[p].status = "running"}

Started == {p \in 1..Len(batchPrompts) : evaluations[p].status /= "waiting"}

\* The number of the batch the prompt at p belongs to, from 0.
BatchIndex(p) == (p - 1) \div ConcurrencyOrDefault

\* The last position that carries the name of position p.
LastNamed(p) ==
    CHOOSE q \in 1..Len(batchPrompts) :
        /\ batchPrompts[q] = batchPrompts[p]
        /\ \A r \in 1..Len(batchPrompts) : batchPrompts[r] = batchPrompts[p] => r <= q

\* C27: the prompts run in consecutive batches of at most concurrency
\* (5 by default): never more in flight than that, none of a batch started
\* before every one of the batches before it resolved, each by quickCheck in
\* quick mode and evaluate otherwise; the returned Map holds every prompt name
\* in configuration order with the result of its (last) prompt, in whatever
\* order the evaluations settled; after a rejection the call is rejected, no
\* Map is returned and no prompt of a later batch is ever started.
C27_BatchesOfConcurrency ==
    /\ Cardinality(InFlightPrompts) <= ConcurrencyOrDefault
    /\ \A p \in Started :
         /\ evaluations[p].method = (IF batchQuick THEN "quickCheck" ELSE "evaluate")
         /\ \A q \in 1..Len(batchPrompts) :
              BatchIndex(q) < BatchIndex(p) => evaluations[q].status = "resolved"
    /\ batchPc = "returned" =>
         /\ \A p \in 1..Len(batchPrompts) : evaluations[p].status = "resolved"
         /\ completed = Len(batchPrompts)
         /\ Len(returnedMap) = 1
         /\ [k \in 1..Len(returnedMap[1]) |-> returnedMap[1][k].name] = Dedup(batchPrompts, {})
         /\ \A p \in 1..Len(batchPrompts) :
              \E k \in 1..Len(returnedMap[1]) :
                 /\ returnedMap[1][k].name = batchPrompts[p]
                 /\ returnedMap[1][k].result = EvalResultOf(LastNamed(p))
    /\ batchPc /= "returned" => returnedMap = <<>>
    /\ (\E p \in 1..Len(batchPrompts) : evaluations[p].status = "rejected") =>
         /\ batchPc = "rejected"
         /\ returnedMap = <<>>
         /\ \A r \in 1..Len(batchPrompts), q \in 1..Len(batchPrompts) :
              (evaluations[r].status = "rejected" /\ BatchIndex(q) > BatchIndex(r)) =>
                 q \notin Started

\* C27 witness: three prompts under concurrency 2, the second settled before
\* the first, the third after both: the Map is in configuration order.
C27_Witness ==
    /\ batchPc = "returned"
    /\ concurrency = Given(2)
    /\ Len(batchPrompts) = 3
    /\ completionOrder = <<2, 1, 3>>
    /\ returnedMap = << << [name |-> "intro", result |-> EvalResultOf(1)],
                           [name |-> "advanced", result |-> EvalResultOf(2)],
                           [name |-> "bonus", result |-> EvalResultOf(3)] >> >>

\* ============================================ several calls on one Runner
\* The callers that hold the same Runner and call it at the same time.
Callers == {"first", "second"}

\* The catalogs of the shared Runner: any content types and methods, the
\* second criterion optional.
ConcurrentCatalogs ==
    {c \in Catalogs : \A i \in Idx : c[i].weight = DefaultWeight /\ (c[i].optional <=> i = NumCriteria)}

ConcurrentContentTypes == {"lesson", "review"}

\* What a criterion's evaluate resolves with, depending on the caller's input.
ConcurrentOutcomes(c) ==
    {Score(c, 100, TRUE, Undefined), Score(c, 50, FALSE, Some(<< <<"fix", c.name>> >>))}

\* A call that has not been made: its locals.
IdleCall ==
    [pc |-> "idle", mode |-> "none", contentType |-> "", task |-> [n \in Names |-> IdleTask],
     result |-> <<>>, error |-> NoError, listed |-> <<>>]

\* Mutant of PromisesOf: the promises are kept on the Runner, one table for
\* every call.
PromisesOf_OnRunner(k) == concurrentCalls["first"].task

\* The promises of call k: locals of its evaluate / quickCheck.
PromisesOf(k) == concurrentCalls[k].task

DispatchIn(t, seq, withJudge) ==
    [n \in Names |-> IF n \in {c.name : c \in Range(seq)} THEN Pending(withJudge) ELSE t[n]]

AllResolvedIn(t, seq) == \A c \in Range(seq) : t[c.name].status = "resolved"

ScoresIn(t, seq) == MapSeq(seq, LAMBDA c : t[c.name].out)

InitConcurrent ==
    /\ criteria \in ConcurrentCatalogs
    /\ judge \in BOOLEAN
    /\ pc = "idle"
    /\ mode = "none"
    /\ contentType = ""
    /\ task = [n \in Names |-> IdleTask]
    /\ result = <<>>
    /\ error = NoError
    /\ judgeCalls = 0
    /\ invoked = [n \in Names |-> 0]
    /\ settled = <<>>
    /\ selected = <<>>
    /\ CompareIdle
    /\ FactoryIdle
    /\ FeedbackIdle
    /\ RetryIdle
    /\ CliIdle
    /\ BatchIdle
    /\ concurrentCalls = [k \in Callers |-> IdleCall]

outsideConcurrent ==
    <<runnerVars, selected, compareVars, factoryVars, feedbackVars, retryVars,
      cliVars, batchVars>>

\* Caller k calls getCriteria(ct).
GetCriteriaBy(k, ct) ==
    /\ concurrentCalls[k].pc = "idle"
    /\ concurrentCalls' = [concurrentCalls EXCEPT ![k].pc = "listed", ![k].contentType = ct,
                                                  ![k].listed = getCriteria(ct)]
    /\ UNCHANGED outsideConcurrent

\* Caller k calls evaluate(input), up to its first await.
EvaluateBy(k, ct) ==
    /\ concurrentCalls[k].pc = "idle"
    /\ concurrentCalls' =
         [concurrentCalls EXCEPT ![k].pc = "det", ![k].mode = "evaluate", ![k].contentType = ct,
              ![k].task = DispatchIn(PromisesOf(k), Deterministic(getCriteria(ct)), FALSE)]
    /\ UNCHANGED outsideConcurrent

\* Caller k calls quickCheck(input), up to its await.
QuickCheckBy(k, ct) ==
    /\ concurrentCalls[k].pc = "idle"
    /\ concurrentCalls' =
         [concurrentCalls EXCEPT ![k].pc = "quick", ![k].mode = "quickCheck", ![k].contentType = ct,
              ![k].task = DispatchIn(PromisesOf(k), QuickApplicable(ct), FALSE)]
    /\ UNCHANGED outsideConcurrent

\* A criterion's evaluate of call k resolves with a score.
ResolveIn(k, n, out) ==
    /\ PromisesOf(k)[n].status = "pending"
    /\ concurrentCalls' = [concurrentCalls EXCEPT ![k].task[n].status = "resolved",
                                                  ![k].task[n].out = out]
    /\ UNCHANGED outsideConcurrent

\* A criterion's evaluate of call k rejects, and with it the call if it still
\* awaits the Promise.all.
RejectIn(k, n) ==
    /\ PromisesOf(k)[n].status = "pending"
    /\ concurrentCalls' =
         [concurrentCalls EXCEPT
            ![k].task[n].status = "rejected",
            ![k].pc = IF @ \in {"quick", "det", "llm"} THEN "failed" ELSE @,
            ![k].error = IF concurrentCalls[k].pc \in {"quick", "det", "llm"}
                         THEN CriterionError(CriterionNamed(n)) ELSE @]
    /\ UNCHANGED outsideConcurrent

\* quickCheck of caller k after its await.
QuickJoinOf(k) ==
    /\ concurrentCalls[k].pc = "quick"
    /\ LET ct == concurrentCalls[k].contentType
           applicable == QuickApplicable(ct)
       IN  /\ AllResolvedIn(PromisesOf(k), applicable)
           /\ concurrentCalls' =
                [concurrentCalls EXCEPT ![k].pc = "returned",
                     ![k].result = <<buildResult(ScoresIn(PromisesOf(k), applicable), applicable, ct)>>]
    /\ UNCHANGED outsideConcurrent

\* evaluate of caller k after its first await.
DetJoinOf(k) ==
    /\ concurrentCalls[k].pc = "det"
    /\ LET ct == concurrentCalls[k].contentType
           applicable == getCriteria(ct)
           llm == Llm(applicable)
       IN  /\ AllResolvedIn(PromisesOf(k), Deterministic(applicable))
           /\ concurrentCalls' =
                IF JudgeMissing(llm)
                THEN [concurrentCalls EXCEPT ![k].pc = "failed", ![k].error = JudgeRequired(llm[1])]
                ELSE [concurrentCalls EXCEPT ![k].pc = "llm",
                          ![k].task = DispatchIn(PromisesOf(k), llm, TRUE)]
    /\ UNCHANGED outsideConcurrent

\* evaluate of caller k after its second await.
LlmJoinOf(k) ==
    /\ concurrentCalls[k].pc = "llm"
    /\ LET ct == concurrentCalls[k].contentType
           applicable == getCriteria(ct)
           deterministic == Deterministic(applicable)
           llm == Llm(applicable)
       IN  /\ AllResolvedIn(PromisesOf(k), llm)
           /\ concurrentCalls' =
                [concurrentCalls EXCEPT ![k].pc = "returned",
                     ![k].result = <<buildResult(ScoresIn(PromisesOf(k), deterministic)
                                                    \o ScoresIn(PromisesOf(k), llm),
                                                 applicable, ct)>>]
    /\ UNCHANGED outsideConcurrent

NextConcurrent ==
    \E k \in Callers :
        \/ \E ct \in ConcurrentContentTypes : GetCriteriaBy(k, ct)
        \/ \E ct \in ConcurrentContentTypes : EvaluateBy(k, ct)
        \/ \E ct \in ConcurrentContentTypes : QuickCheckBy(k, ct)
        \/ \E n \in Names : \E out \in ConcurrentOutcomes(CriterionNamed(n)) : ResolveIn(k, n, out)
        \/ \E n \in Names : RejectIn(k, n)
        \/ QuickJoinOf(k)
        \/ DetJoinOf(k)
        \/ LlmJoinOf(k)

SpecConcurrent == InitConcurrent /\ [][NextConcurrent]_vars

\* ---------------------------------- calls on one Runner (SpecConcurrent)
\* The criteria call k runs, deterministic first, and what each resolved with
\* in call k.
RunBy(k) ==
    LET applicable == getCriteria(concurrentCalls[k].contentType)
    IN  IF concurrentCalls[k].mode = "quickCheck" THEN Deterministic(applicable)
        ELSE Deterministic(applicable) \o Llm(applicable)

OwnScores(k) == [i \in 1..Len(RunBy(k)) |-> concurrentCalls[k].task[RunBy(k)[i].name].out]

\* The Result of call k had it run alone with the same input: built from the
\* scores its own criteria evaluations resolved with.
AloneResult(k) ==
    buildResult(OwnScores(k), getCriteria(concurrentCalls[k].contentType),
                concurrentCalls[k].contentType)

\* The catalog and the Judge reference the Runner was constructed with stay.
RunnerUntouched == criteria' = criteria /\ judge' = judge

\* C28: no step of evaluate, quickCheck or getCriteria changes the Runner's
\* catalog or Judge reference, and with two callers on one Runner, interleaved
\* in any way, each returned Result is the one built from the caller's own
\* scores alone, each listing the catalog's criteria for the caller's content
\* type, and a step of one call leaves the other call as it is.
C28_CallsDoNotInterfere ==
    /\ [][RunnerUntouched]_vars
    /\ [](\A k \in Callers :
            /\ concurrentCalls[k].pc = "returned" =>
                 /\ concurrentCalls[k].result = <<AloneResult(k)>>
                 /\ \A i \in 1..Len(RunBy(k)) :
                      /\ concurrentCalls[k].task[RunBy(k)[i].name].status = "resolved"
                      /\ OwnScores(k)[i].criterion = RunBy(k)[i].name
            /\ concurrentCalls[k].pc = "listed" =>
                 concurrentCalls[k].listed = getCriteria(concurrentCalls[k].contentType)
            /\ concurrentCalls[k].pc /= "returned" => concurrentCalls[k].result = <<>>)
    /\ [][\A k \in Callers :
            concurrentCalls'[k] = concurrentCalls[k]
            \/ \A j \in Callers \ {k} : concurrentCalls'[j] = concurrentCalls[j]]_vars

\* C28 witness: both callers returned from evaluate on the same criteria with
\* different scores, the second caller's criteria resolved while the first
\* call was under way, and the two Results differ.
C28_Witness ==
    /\ \A k \in Callers :
         /\ concurrentCalls[k].pc = "returned"
         /\ concurrentCalls[k].mode = "evaluate"
         /\ concurrentCalls[k].contentType = "lesson"
         /\ Len(concurrentCalls[k].result[1].scores) = NumCriteria
    /\ criteria[1].method = "deterministic" /\ criteria[NumCriteria].method = "llm_judge"
    /\ concurrentCalls["first"].result[1].passed
    /\ ~concurrentCalls["second"].result[1].passed
    /\ concurrentCalls["first"].result[1].overallScore
         /= concurrentCalls["second"].result[1].overallScore

====
